---- MODULE Spec2Model ----
(***************************************************************************)
(* A model of MLPToolbox::CNeuralNetwork (src/include/CNeuralNetwork.hpp): *)
(* the variable matcher GetVariableMapping, the construction calls, and    *)
(* the evaluation Predict with its first and second derivatives.           *)
(*                                                                         *)
(* Conventions.  A std::vector is a sequence; the code's index i is the    *)
(* sequence index i + 1.  An mlpdouble is an exact rational <<n, d>> in    *)
(* lowest terms with d > 0, so the arithmetic is that of the reals the     *)
(* doubles stand for.  A CLayer* is the index of the layer in heap, and 0  *)
(* is nullptr.                                                             *)
(***************************************************************************)
EXTENDS Integers, Sequences, FiniteSets, TLC

VARIABLES
    input_names, output_names,
    n_hidden_layers, inputLayer, outputLayer, hiddenLayers, total_layers,
    weights_mat, input_norm, output_norm,
    ANN_outputs, dOutputs_dInputs, d2Outputs_dInputs2,
    Phi, Phi_prime, Phi_dprime,
    compute_gradient, compute_second_gradient,
    activation_function_types, activation_function_names,
    input_reg_method, output_reg_method,
    heap,
    match_call, last_call, fault, reported, n_calls, n_config

nameVars == <<input_names, output_names>>
layerVars == <<n_hidden_layers, inputLayer, outputLayer, hiddenLayers, total_layers>>
weightVars == <<weights_mat, heap>>
normVars == <<input_norm, output_norm, input_reg_method, output_reg_method>>
outVars == <<ANN_outputs, dOutputs_dInputs, d2Outputs_dInputs2>>
phiVars == <<Phi, Phi_prime, Phi_dprime>>
flagVars == <<compute_gradient, compute_second_gradient>>
actVars == <<activation_function_types, activation_function_names>>
obsVars == <<match_call, last_call, fault, reported, n_calls, n_config>>

vars == <<nameVars, layerVars, weightVars, normVars, outVars, phiVars, flagVars,
          actVars, obsVars>>

(***************************************************************************)
(* Bounds of the model.                                                    *)
(***************************************************************************)
MaxInputs == 2
MaxOutputs == 2
MaxLookupIn == MaxInputs + 1
MaxLookupOut == MaxOutputs

(***************************************************************************)
(* Helpers on sequences.                                                   *)
(***************************************************************************)
Range(s) == {s[i] : i \in 1..Len(s)}

SeqsUpTo(S, lo, hi) == UNION {[1..n -> S] : n \in lo..hi}

Max(S) == CHOOSE x \in S : \A y \in S : y <= x

NoCall == [op |-> "none"]

(***************************************************************************)
(* The variable matcher.                                                   *)
(***************************************************************************)
GetnInputs == Len(input_names)

GetnOutputs == Len(output_names)

\* A variant that stores the one-based position instead of the index.
LookupMapOneBased(lookup) ==
    [name \in Range(lookup) |-> Max({i \in 1..Len(lookup) : lookup[i] = name})]

\* std::unordered_map filled by map[lookup[i]] = i for i = 0, 1, ...: each name
\* maps to the last index that holds it.
LookupMap(lookup) ==
    [name \in Range(lookup) |-> Max({i \in 1..Len(lookup) : lookup[i] = name}) - 1]

\* The loop over the network inputs: the first name missing from the map
\* clears the pairs built so far and ends the matching.
RECURSIVE InputLoop(_, _, _, _)
InputLoop(names, lookup_input_map, i, input_indices) ==
    IF i >= Len(names)
    THEN [missing |-> FALSE, input_indices |-> input_indices]
    ELSE IF names[i + 1] \notin DOMAIN lookup_input_map
         THEN [missing |-> TRUE, input_indices |-> << >>]
         ELSE InputLoop(names, lookup_input_map, i + 1,
                        Append(input_indices, <<lookup_input_map[names[i + 1]], i>>))

\* The loop over the network outputs: a name absent from the map is skipped.
RECURSIVE OutputLoop(_, _, _, _)
OutputLoop(names, lookup_output_map, i, output_indices) ==
    IF i >= Len(names)
    THEN output_indices
    ELSE IF names[i + 1] \in DOMAIN lookup_output_map
         THEN OutputLoop(names, lookup_output_map, i + 1,
                         Append(output_indices, <<lookup_output_map[names[i + 1]], i>>))
         ELSE OutputLoop(names, lookup_output_map, i + 1, output_indices)

\* A variant that marks the result a match without looking at output_indices.
MatchResultOfNoEmptyCheck(lookup_inputs, lookup_outputs) ==
    IF GetnInputs > Len(lookup_inputs)
    THEN [is_match |-> FALSE, input_indices |-> << >>, output_indices |-> << >>]
    ELSE LET ins == InputLoop(input_names, LookupMap(lookup_inputs), 0, << >>)
             outs == OutputLoop(output_names, LookupMap(lookup_outputs), 0, << >>)
         IN  [is_match |-> ~ins.missing, input_indices |-> ins.input_indices,
              output_indices |-> outs]

MatchResultOf(lookup_inputs, lookup_outputs) ==
    IF GetnInputs > Len(lookup_inputs)
    THEN [is_match |-> FALSE, input_indices |-> << >>, output_indices |-> << >>]
    ELSE LET ins == InputLoop(input_names, LookupMap(lookup_inputs), 0, << >>)
         IN  IF ins.missing
             THEN [is_match |-> FALSE, input_indices |-> << >>,
                   output_indices |-> << >>]
             ELSE LET outs == OutputLoop(output_names, LookupMap(lookup_outputs),
                                         0, << >>)
                  IN  IF outs = << >>
                      THEN [is_match |-> FALSE,
                            input_indices |-> ins.input_indices,
                            output_indices |-> << >>]
                      ELSE [is_match |-> TRUE,
                            input_indices |-> ins.input_indices,
                            output_indices |-> outs]

(***************************************************************************)
(* mlpdouble arithmetic: exact rationals <<numerator, denominator>>.       *)
(***************************************************************************)
Abs(x) == IF x < 0 THEN -x ELSE x

RECURSIVE GCD(_, _)
GCD(a, b) == IF b = 0 THEN a ELSE GCD(b, a % b)

\* n / d in lowest terms, d # 0.
Q(n, d) ==
    LET g == GCD(Abs(n), Abs(d))
        s == IF d < 0 THEN -1 ELSE 1
    IN  <<(s * n) \div g, (s * d) \div g>>

Zero == <<0, 1>>

One == <<1, 1>>

QInt(n) == <<n, 1>>

QAdd(a, b) == Q(a[1] * b[2] + b[1] * a[2], a[2] * b[2])

QSub(a, b) == Q(a[1] * b[2] - b[1] * a[2], a[2] * b[2])

QMul(a, b) == Q(a[1] * b[1], a[2] * b[2])

\* a / b, b # 0.
QDiv(a, b) == Q(a[1] * b[2], a[2] * b[1])

QPos(a) == a[1] > 0

\* The content of an mlpdouble that was never written (a member without an
\* initializer, an element of new mlpdouble[n]): no rational.
Indeterminate == <<0, 0>>

(***************************************************************************)
(* CLayer (include/CLayer.hpp): the neurons of one layer, each with its    *)
(* output, its bias and its derivative buffers.                            *)
(***************************************************************************)
CLayer(n_neurons) ==
    [n |-> n_neurons, is_input |-> FALSE,
     output |-> [i \in 1..n_neurons |-> Zero],
     bias |-> [i \in 1..n_neurons |-> Zero],
     dYdX |-> [i \in 1..n_neurons |-> << >>],
     d2YdX2 |-> [i \in 1..n_neurons |-> << >>]]

\* CLayer::SizeGradients(nInputs): every neuron gets nInputs first and
\* nInputs x nInputs second derivatives.
SizeGradients(layer, nInputs) ==
    [layer EXCEPT
        !.dYdX = [i \in 1..layer.n |-> [j \in 1..nInputs |-> Zero]],
        !.d2YdX2 = [i \in 1..layer.n |->
                       [j \in 1..nInputs |-> [k \in 1..nInputs |-> Zero]]]]

NullPtr == 0

(***************************************************************************)
(* The object as its member initializers leave it.                         *)
(***************************************************************************)
MINMAX == "MINMAX"

STANDARD == "STANDARD"

ROBUST == "ROBUST"

ScalingFunctions == {MINMAX, STANDARD, ROBUST}

\* ANN_outputs is a raw pointer without an initializer.
NoOutputs == [allocated |-> FALSE, data |-> << >>]

Constructed ==
    /\ input_names = << >>
    /\ output_names = << >>
    /\ n_hidden_layers = 0
    /\ inputLayer = NullPtr
    /\ outputLayer = NullPtr
    /\ hiddenLayers = << >>
    /\ total_layers = << >>
    /\ weights_mat = << >>
    /\ input_norm = << >>
    /\ output_norm = << >>
    /\ ANN_outputs = NoOutputs
    /\ dOutputs_dInputs = << >>
    /\ d2Outputs_dInputs2 = << >>
    /\ Phi = Indeterminate
    /\ Phi_prime = Indeterminate
    /\ Phi_dprime = Indeterminate
    /\ compute_gradient = FALSE
    /\ compute_second_gradient = FALSE
    /\ activation_function_types = << >>
    /\ activation_function_names = << >>
    /\ input_reg_method = MINMAX
    /\ output_reg_method = MINMAX
    /\ heap = << >>

Unobserved ==
    /\ match_call = NoCall
    /\ last_call = NoCall
    /\ fault = "none"
    /\ reported = "none"
    /\ n_calls = 0
    /\ n_config = 0

Running == fault = "none"

(***************************************************************************)
(* Names and matching: the specification SpecMatch.                        *)
(***************************************************************************)
InNames == {"u", "v"}

OutNames == {"y", "z"}

LookupInNames == InNames \cup {"w"}

LookupOutNames == OutNames

\* A network after DefineInputLayer(n), DefineOutputLayer(m) and the
\* SetInputName / SetOutputName calls of the loader, and the two lookup lists
\* a caller is about to pass to GetVariableMapping.
InitMatch ==
    /\ \E ins \in SeqsUpTo(InNames, 1, MaxInputs),
          outs \in SeqsUpTo(OutNames, 1, MaxOutputs) :
          /\ input_names = ins
          /\ output_names = outs
          /\ heap = <<[CLayer(Len(ins)) EXCEPT !.is_input = TRUE], CLayer(Len(outs))>>
          /\ input_norm = [i \in 1..Len(ins) |-> <<Zero, Zero>>]
          /\ output_norm = [i \in 1..Len(outs) |-> <<Zero, Zero>>]
    /\ inputLayer = 1
    /\ outputLayer = 2
    /\ n_hidden_layers = 0
    /\ hiddenLayers = << >>
    /\ total_layers = << >>
    /\ weights_mat = << >>
    /\ ANN_outputs = NoOutputs
    /\ dOutputs_dInputs = << >>
    /\ d2Outputs_dInputs2 = << >>
    /\ Phi = Indeterminate
    /\ Phi_prime = Indeterminate
    /\ Phi_dprime = Indeterminate
    /\ compute_gradient = FALSE
    /\ compute_second_gradient = FALSE
    /\ activation_function_types = << >>
    /\ activation_function_names = << >>
    /\ input_reg_method = MINMAX
    /\ output_reg_method = MINMAX
    /\ \E li \in SeqsUpTo(LookupInNames, 0, MaxLookupIn),
          lo \in SeqsUpTo(LookupOutNames, 0, MaxLookupOut) :
          match_call = [op |-> "pending", lookup_inputs |-> li, lookup_outputs |-> lo]
    /\ last_call = NoCall
    /\ fault = "none"
    /\ reported = "none"
    /\ n_calls = 0
    /\ n_config = 0

\* A const query: the MatchResult goes to the caller, the network is unchanged.
GetVariableMapping(lookup_inputs, lookup_outputs) ==
    /\ Running
    /\ match_call.op = "pending"
    /\ lookup_inputs = match_call.lookup_inputs
    /\ lookup_outputs = match_call.lookup_outputs
    /\ match_call' = [op |-> "GetVariableMapping",
                      lookup_inputs |-> lookup_inputs,
                      lookup_outputs |-> lookup_outputs,
                      result |-> MatchResultOf(lookup_inputs, lookup_outputs)]
    /\ UNCHANGED <<nameVars, layerVars, weightVars, normVars, outVars, phiVars,
                   flagVars, actVars, last_call, fault, reported, n_calls, n_config>>

NextMatch ==
    \/ \E li \in SeqsUpTo(LookupInNames, 0, MaxLookupIn),
          lo \in SeqsUpTo(LookupOutNames, 0, MaxLookupOut) :
          GetVariableMapping(li, lo)

SpecMatch == InitMatch /\ [][NextMatch]_vars

Matched == match_call.op = "GetVariableMapping"

\* C1: is_match is true exactly when every network input name occurs in
\* lookup_inputs and at least one network output name occurs in lookup_outputs.
C1_MatchIffInputsCoveredAndSomeOutput ==
    Matched =>
        (match_call.result.is_match <=>
            /\ Range(input_names) \subseteq Range(match_call.lookup_inputs)
            /\ Range(output_names) \cap Range(match_call.lookup_outputs) # {})

\* The part of C1 the code keeps: a match implies both conditions, and both
\* conditions imply a match when lookup_inputs is at least as long as the
\* network's input list.
C1_MatchIffWithEnoughLookupInputs ==
    Matched =>
        (match_call.result.is_match <=>
            /\ GetnInputs <= Len(match_call.lookup_inputs)
            /\ Range(input_names) \subseteq Range(match_call.lookup_inputs)
            /\ Range(output_names) \cap Range(match_call.lookup_outputs) # {})

SecondsOf(pairs) == [k \in 1..Len(pairs) |-> pairs[k][2]]

\* C2: in a match every network input index is the second component of
\* exactly one input pair and there is at least one output pair; without a
\* match there is no output pair.
C2_MatchCoversInputsOnce ==
    Matched =>
        LET r == match_call.result
        IN  /\ r.is_match =>
                /\ \A n \in 0..(GetnInputs - 1) :
                      Cardinality({k \in 1..Len(r.input_indices) :
                                      r.input_indices[k][2] = n}) = 1
                /\ Len(r.input_indices) = GetnInputs
                /\ Len(r.output_indices) >= 1
            /\ ~r.is_match => r.output_indices = << >>

C2_Witness ==
    /\ Matched
    /\ match_call.result.is_match
    /\ GetnInputs = 2
    /\ Len(match_call.lookup_inputs) = 3
    /\ Len(match_call.result.output_indices) = 1

\* C3: without a match both index lists of the result are empty, and the call
\* ends without a fault.
C3_NoMatchHasEmptyLists ==
    (Matched /\ ~match_call.result.is_match) =>
        /\ match_call.result.input_indices = << >>
        /\ match_call.result.output_indices = << >>
        /\ fault = "none"

PairsNameEqual(pairs, lookup, names) ==
    \A k \in 1..Len(pairs) :
        /\ pairs[k][1] + 1 \in 1..Len(lookup)
        /\ pairs[k][2] + 1 \in 1..Len(names)
        /\ lookup[pairs[k][1] + 1] = names[pairs[k][2] + 1]

Ascending(pairs) ==
    \A k \in 1..Len(pairs), m \in 1..Len(pairs) : k < m => pairs[k][2] < pairs[m][2]

\* C4: in a match every pair joins equal names, the output pairs list exactly
\* the network outputs whose name is in lookup_outputs, and both lists are in
\* ascending network index.
C4_PairsJoinEqualNames ==
    (Matched /\ match_call.result.is_match) =>
        LET r == match_call.result
        IN  /\ PairsNameEqual(r.input_indices, match_call.lookup_inputs, input_names)
            /\ PairsNameEqual(r.output_indices, match_call.lookup_outputs, output_names)
            /\ Range(SecondsOf(r.output_indices)) =
                   {n \in 0..(GetnOutputs - 1) :
                       output_names[n + 1] \in Range(match_call.lookup_outputs)}
            /\ Ascending(r.input_indices)
            /\ Ascending(r.output_indices)

C4_Witness ==
    /\ Matched
    /\ match_call.result.is_match
    /\ input_names = <<"u", "v">>
    /\ output_names = <<"y", "z">>
    /\ match_call.lookup_inputs = <<"u", "v", "w">>
    /\ match_call.lookup_outputs = <<"y">>
    /\ match_call.result.input_indices = <<<<0, 0>>, <<1, 1>>>>
    /\ match_call.result.output_indices = <<<<0, 0>>>>

(***************************************************************************)
(* Construction: the specification SpecBuild.                              *)
(***************************************************************************)
MaxLayers == 3

MaxNeurons == 2

MaxConfig == 2

\* std::vector::resize(n): the first elements are kept, new ones are
\* value-initialized.
Resize(s, n, d) == [i \in 1..n |-> IF i <= Len(s) THEN s[i] ELSE d]

\* ENUM_ACTIVATION_FUNCTION, by the names of its values.
ActivationTags ==
    {"NONE", "LINEAR", "RELU", "ELU", "GELU", "SELU", "SIGMOID", "SWISH", "TANH",
     "EXPONENTIAL"}

activation_function_map ==
    [name \in {"none", "linear", "elu", "relu", "gelu", "selu", "sigmoid", "swish",
               "tanh", "exponential"} |->
        CASE name = "none" -> "NONE"
          [] name = "linear" -> "LINEAR"
          [] name = "elu" -> "ELU"
          [] name = "relu" -> "RELU"
          [] name = "gelu" -> "GELU"
          [] name = "selu" -> "SELU"
          [] name = "sigmoid" -> "SIGMOID"
          [] name = "swish" -> "SWISH"
          [] name = "tanh" -> "TANH"
          [] name = "exponential" -> "EXPONENTIAL"]

\* A value of the enumeration's underlying type that is none of its values.
OutOfEnum == "OUT_OF_ENUM"

\* What reading ->second of activation_function_map.end() can yield: the
\* iterator points at no element, so the tag read is whatever the memory
\* behind it holds: a value of the enumeration or a value outside it.
EndIteratorReads == {"NONE", "RELU", OutOfEnum}

\* activation_function_map.find(input)->second: the tags the assignment of
\* line 218 can store.
TagAssigned(i_layer, input) ==
    IF input \in DOMAIN activation_function_map
    THEN {activation_function_map[input]}
    ELSE EndIteratorReads

InitBuild == Constructed /\ Unobserved

DefineInputLayer(n_neurons) ==
    /\ Running
    /\ Len(heap) < MaxLayers
    /\ heap' = Append(heap, [CLayer(n_neurons) EXCEPT !.is_input = TRUE])
    /\ inputLayer' = Len(heap) + 1
    /\ input_norm' = Resize(input_norm, n_neurons, <<Zero, Zero>>)
    /\ input_names' = Resize(input_names, n_neurons, "")
    /\ last_call' = [op |-> "DefineInputLayer"]
    /\ UNCHANGED <<output_names, n_hidden_layers, outputLayer, hiddenLayers,
                   total_layers, weights_mat, output_norm, input_reg_method,
                   output_reg_method, outVars, phiVars, flagVars, actVars,
                   match_call, fault, reported, n_calls, n_config>>

DefineOutputLayer(n_neurons) ==
    /\ Running
    /\ Len(heap) < MaxLayers
    /\ heap' = Append(heap, CLayer(n_neurons))
    /\ outputLayer' = Len(heap) + 1
    /\ output_norm' = Resize(output_norm, n_neurons, <<Zero, Zero>>)
    /\ output_names' = Resize(output_names, n_neurons, "")
    /\ last_call' = [op |-> "DefineOutputLayer"]
    /\ UNCHANGED <<input_names, n_hidden_layers, inputLayer, hiddenLayers,
                   total_layers, weights_mat, input_norm, input_reg_method,
                   output_reg_method, outVars, phiVars, flagVars, actVars,
                   match_call, fault, reported, n_calls, n_config>>

PushHiddenLayer(n_neurons) ==
    /\ Running
    /\ Len(heap) < MaxLayers
    /\ heap' = Append(heap, CLayer(n_neurons))
    /\ hiddenLayers' = Append(hiddenLayers, Len(heap) + 1)
    /\ n_hidden_layers' = n_hidden_layers + 1
    /\ last_call' = [op |-> "PushHiddenLayer"]
    /\ UNCHANGED <<nameVars, inputLayer, outputLayer, total_layers, weights_mat,
                   normVars, outVars, phiVars, flagVars, actVars,
                   match_call, fault, reported, n_calls, n_config>>

SizeActivationFunctions(n_layers) ==
    /\ Running
    /\ activation_function_types' = Resize(activation_function_types, n_layers, "NONE")
    /\ activation_function_names' = Resize(activation_function_names, n_layers, "")
    /\ last_call' = [op |-> "SizeActivationFunctions"]
    /\ UNCHANGED <<nameVars, layerVars, weightVars, normVars, outVars, phiVars,
                   flagVars, match_call, fault, reported, n_calls, n_config>>

\* Line 215 stores the name, line 218 the tag found for it.  An index past the
\* end of the two arrays writes outside them.  Nothing here reports an error.
SetActivationFunction(i_layer, input) ==
    /\ Running
    /\ n_config < MaxConfig
    /\ n_config' = n_config + 1
    /\ last_call' = [op |-> "SetActivationFunction", i_layer |-> i_layer,
                     input |-> input,
                     known |-> input \in DOMAIN activation_function_map,
                     types_before |-> activation_function_types]
    /\ IF i_layer < Len(activation_function_names)
       THEN /\ activation_function_names' =
                   [activation_function_names EXCEPT ![i_layer + 1] = input]
            /\ \E tag \in TagAssigned(i_layer, input) :
                   activation_function_types' =
                       [activation_function_types EXCEPT ![i_layer + 1] = tag]
            /\ fault' = "none"
       ELSE /\ UNCHANGED actVars
            /\ fault' = "out_of_range"
    /\ UNCHANGED <<nameVars, layerVars, weightVars, normVars, outVars, phiVars,
                   flagVars, match_call, reported, n_calls>>

\* Whether the three kinds of layers SizeWeights reads have been declared.
Declared ==
    /\ inputLayer # NullPtr
    /\ outputLayer # NullPtr
    /\ n_hidden_layers >= 1

\* total_layers after lines 431-436; an undeclared layer leaves nullptr.
TotalLayersSized == <<inputLayer>> \o hiddenLayers \o <<outputLayer>>

NNeurons(layer) == heap[layer].n

\* Row count and column count of the weight block of gap l (0-based):
\* neurons of layer l + 1 and of layer l (lines 439-455).
WeightBlock(old, rows, cols) ==
    LET r == Resize(old, rows, << >>)
    IN  [i \in 1..rows |-> Resize(r[i], cols, Zero)]

WeightsSized ==
    LET t == TotalLayersSized
        w == Resize(weights_mat, n_hidden_layers + 1, << >>)
    IN  [l \in 1..(n_hidden_layers + 1) |->
            WeightBlock(w[l], NNeurons(t[l + 1]), NNeurons(t[l]))]

\* SizeWeights on a network that lacks a layer: lines 431-438 resize
\* total_layers and weights_mat, then line 439 indexes hiddenLayers[0] of an
\* empty vector, or line 441 / 451 calls GetNNeurons() through nullptr.
SizeWeightsUndeclared ==
    /\ reported' = reported
    /\ total_layers' = TotalLayersSized
    /\ weights_mat' = Resize(weights_mat, n_hidden_layers + 1, << >>)
    /\ fault' = IF n_hidden_layers = 0 THEN "out_of_range" ELSE "null_deref"

SizeWeights ==
    /\ Running
    /\ last_call' = [op |-> "SizeWeights", declared |-> Declared]
    /\ IF Declared
       THEN /\ total_layers' = TotalLayersSized
            /\ weights_mat' = WeightsSized
            /\ ANN_outputs' = [allocated |-> TRUE,
                               data |-> [i \in 1..NNeurons(outputLayer) |->
                                            Indeterminate]]
            /\ dOutputs_dInputs' =
                   LET r == Resize(dOutputs_dInputs, NNeurons(outputLayer), << >>)
                   IN  [i \in 1..NNeurons(outputLayer) |->
                           Resize(r[i], NNeurons(inputLayer), Zero)]
            /\ d2Outputs_dInputs2' =
                   LET r == Resize(d2Outputs_dInputs2, NNeurons(outputLayer), << >>)
                   IN  [i \in 1..NNeurons(outputLayer) |->
                           LET rr == Resize(r[i], NNeurons(inputLayer), << >>)
                           IN  [j \in 1..NNeurons(inputLayer) |->
                                   Resize(rr[j], NNeurons(inputLayer), Zero)]]
            /\ heap' = [id \in 1..Len(heap) |->
                           IF id \in Range(TotalLayersSized)
                           THEN SizeGradients(heap[id], NNeurons(inputLayer))
                           ELSE heap[id]]
            /\ UNCHANGED <<fault, reported>>
       ELSE /\ SizeWeightsUndeclared
            /\ UNCHANGED <<outVars, heap>>
    /\ UNCHANGED <<nameVars, n_hidden_layers, inputLayer, outputLayer, hiddenLayers,
                   normVars, phiVars, flagVars, actVars, match_call, n_calls,
                   n_config>>

\* Whether SizeWeights has not run yet: it is what sizes total_layers.
BeforeSizing == total_layers = << >>

\* Whether SizeWeights has run on the layers now declared.
SizingCurrent ==
    /\ Declared
    /\ total_layers = TotalLayersSized
    /\ weights_mat = WeightsSized

\* The neuron counts of the declared layers, input to output.
DeclaredSizes == [l \in 1..(n_hidden_layers + 2) |-> NNeurons(TotalLayersSized[l])]

\* weights_mat[i_layer][j_neuron][i_neuron] = value, unchecked: an index past
\* the end of one of the three vectors writes outside it.
SetWeight(i_layer, i_neuron, j_neuron, value) ==
    /\ Running
    /\ n_config < MaxConfig
    /\ n_config' = n_config + 1
    /\ last_call' = [op |-> "SetWeight", i_layer |-> i_layer, i_neuron |-> i_neuron,
                     j_neuron |-> j_neuron, value |-> value,
                     before_sizing |-> BeforeSizing,
                     sizing_current |-> SizingCurrent,
                     in_declared_range |->
                         /\ Declared
                         /\ i_layer < n_hidden_layers + 1
                         /\ i_neuron < DeclaredSizes[i_layer + 1]
                         /\ j_neuron < DeclaredSizes[i_layer + 2]]
    /\ IF /\ i_layer < Len(weights_mat)
          /\ j_neuron < Len(weights_mat[i_layer + 1])
          /\ i_neuron < Len(weights_mat[i_layer + 1][j_neuron + 1])
       THEN /\ weights_mat' =
                   [weights_mat EXCEPT ![i_layer + 1][j_neuron + 1][i_neuron + 1] = value]
            /\ fault' = fault
       ELSE /\ weights_mat' = weights_mat
            /\ fault' = "out_of_range"
    /\ UNCHANGED <<nameVars, layerVars, heap, normVars, outVars, phiVars, flagVars,
                   actVars, match_call, reported, n_calls>>

\* total_layers[i_layer]->SetBias(i_neuron, value), unchecked: total_layers is
\* empty until SizeWeights fills it.
SetBias(i_layer, i_neuron, value) ==
    /\ Running
    /\ n_config < MaxConfig
    /\ n_config' = n_config + 1
    /\ last_call' = [op |-> "SetBias", i_layer |-> i_layer, i_neuron |-> i_neuron,
                     value |-> value,
                     before_sizing |-> BeforeSizing,
                     sizing_current |-> SizingCurrent,
                     in_declared_range |->
                         /\ Declared
                         /\ i_layer < n_hidden_layers + 2
                         /\ i_neuron < DeclaredSizes[i_layer + 1]]
    /\ IF /\ i_layer < Len(total_layers)
          /\ i_neuron < NNeurons(total_layers[i_layer + 1])
       THEN /\ heap' = [heap EXCEPT ![total_layers[i_layer + 1]].bias[i_neuron + 1] = value]
            /\ fault' = fault
       ELSE /\ heap' = heap
            /\ fault' = "out_of_range"
    /\ UNCHANGED <<nameVars, layerVars, weights_mat, normVars, outVars, phiVars,
                   flagVars, actVars, match_call, reported, n_calls>>

BuildNames == {"linear", "relu", "leakyrelu"}

NextBuild ==
    \/ \E n \in 1..MaxNeurons : DefineInputLayer(n)
    \/ \E n \in 1..MaxNeurons : DefineOutputLayer(n)
    \/ \E n \in 1..MaxNeurons : PushHiddenLayer(n)
    \/ \E n \in 1..MaxLayers : SizeActivationFunctions(n)
    \/ \E i \in 0..MaxLayers, name \in BuildNames : SetActivationFunction(i, name)
    \/ SizeWeights
    \/ \E l \in 0..(MaxLayers - 1), i, j \in 0..(MaxNeurons - 1) :
          SetWeight(l, i, j, One)
    \/ \E l \in 0..(MaxLayers - 1), i \in 0..(MaxNeurons - 1) : SetBias(l, i, One)

SpecBuild == InitBuild /\ [][NextBuild]_vars

\* C8: SizeWeights invoked before the input layer, the output layer and a
\* hidden layer are declared reports a configuration error and neither
\* allocates nor indexes anything.
C8_SizeWeightsRejectedWhenUndeclared ==
    (last_call.op = "SizeWeights" /\ ~last_call.declared) =>
        /\ reported = "ConfigurationError"
        /\ fault = "none"
        /\ total_layers = << >>
        /\ weights_mat = << >>
        /\ ~ANN_outputs.allocated

\* C9: SetActivationFunction with a name outside the map (for a layer index
\* inside the two arrays) reports an error and assigns no tag to the layer.
C9_UnknownActivationRejected ==
    (/\ last_call.op = "SetActivationFunction"
     /\ ~last_call.known
     /\ last_call.i_layer < Len(last_call.types_before)) =>
        /\ reported = "ConfigurationError"
        /\ activation_function_types = last_call.types_before

(***************************************************************************)
(* Normalization.  All three switch on input_reg_method, as the source     *)
(* does.                                                                   *)
(***************************************************************************)
NormalizeInput(val_input_dim, iInput) ==
    LET norm == input_norm[iInput + 1]
    IN  IF input_reg_method = MINMAX
        THEN QDiv(QSub(val_input_dim, norm[1]), QSub(norm[2], norm[1]))
        ELSE QDiv(QSub(val_input_dim, norm[1]), norm[2])

GetRegularizationScale(iInput, is_input) ==
    LET norm == IF is_input THEN input_norm[iInput + 1] ELSE output_norm[iInput + 1]
    IN  IF input_reg_method = MINMAX
        THEN QSub(norm[2], norm[1])
        ELSE IF input_reg_method \in {STANDARD, ROBUST} THEN norm[2] ELSE Zero

\* A variant that drops the offset.
DimensionalizeOutputNoOffset(val_output_norm, iOutput) ==
    LET norm == output_norm[iOutput + 1]
    IN  IF input_reg_method = MINMAX
        THEN QMul(QSub(norm[2], norm[1]), val_output_norm)
        ELSE QMul(norm[2], val_output_norm)

DimensionalizeOutput(val_output_norm, iOutput) ==
    LET norm == output_norm[iOutput + 1]
    IN  IF input_reg_method = MINMAX
        THEN QAdd(QMul(QSub(norm[2], norm[1]), val_output_norm), norm[1])
        ELSE QAdd(QMul(norm[2], val_output_norm), norm[1])

(***************************************************************************)
(* The activation functions.  phi is the record of the members Phi,        *)
(* Phi_prime and Phi_dprime before the call; the result is the record      *)
(* after it.  A member the selected case does not assign keeps its value.  *)
(* The cases below are those whose formulas are rational; the default      *)
(* case of the switch assigns nothing.                                     *)
(***************************************************************************)
\* exp on mlpdouble, as the rational 1 + x + x^2/2 for x > 0 and its
\* reciprocal at -x for x <= 0: positive, 1 at 0, increasing.
Exp(x) ==
    LET series(y) == QAdd(QAdd(One, y), QMul(Q(1, 2), QMul(y, y)))
    IN  IF QPos(x) THEN series(x) ELSE QDiv(One, series(QSub(Zero, x)))

\* A variant of the ELU case with the second derivative 0 on both branches.
EluCaseFlatBelowZero(input, phi) ==
    IF QPos(input)
    THEN [Phi |-> input,
          Phi_prime |-> IF compute_gradient THEN One ELSE phi.Phi_prime,
          Phi_dprime |-> IF compute_gradient /\ compute_second_gradient
                         THEN Zero ELSE phi.Phi_dprime]
    ELSE [Phi |-> QSub(Exp(input), One),
          Phi_prime |-> IF compute_gradient THEN Exp(input) ELSE phi.Phi_prime,
          Phi_dprime |-> IF compute_gradient /\ compute_second_gradient
                         THEN Zero ELSE phi.Phi_dprime]

\* case ENUM_ACTIVATION_FUNCTION::ELU
EluCase(input, phi) ==
    IF QPos(input)
    THEN [Phi |-> input,
          Phi_prime |-> IF compute_gradient THEN One ELSE phi.Phi_prime,
          Phi_dprime |-> IF compute_gradient /\ compute_second_gradient
                         THEN Zero ELSE phi.Phi_dprime]
    ELSE LET exp_x == Exp(input)
         IN  [Phi |-> QSub(exp_x, One),
              Phi_prime |-> IF compute_gradient THEN exp_x ELSE phi.Phi_prime,
              Phi_dprime |-> IF compute_gradient /\ compute_second_gradient
                             THEN exp_x ELSE phi.Phi_dprime]

ActivationFunction(tag, input, phi) ==
    CASE tag = "ELU" -> EluCase(input, phi)
      [] tag = "LINEAR" ->
            [Phi |-> input,
             Phi_prime |-> IF compute_gradient THEN One ELSE phi.Phi_prime,
             Phi_dprime |-> IF compute_gradient /\ compute_second_gradient
                            THEN Zero ELSE phi.Phi_dprime]
      [] tag = "RELU" ->
            [Phi |-> IF QPos(input) THEN input ELSE Zero,
             Phi_prime |-> IF compute_gradient
                           THEN (IF QPos(input) THEN One ELSE Zero)
                           ELSE phi.Phi_prime,
             Phi_dprime |-> IF compute_second_gradient THEN Zero ELSE phi.Phi_dprime]
      [] tag = "NONE" ->
            [Phi |-> Zero,
             Phi_prime |-> IF compute_gradient THEN Zero ELSE phi.Phi_prime,
             Phi_dprime |-> IF compute_gradient /\ compute_second_gradient
                            THEN Zero ELSE phi.Phi_dprime]
      [] tag = OutOfEnum -> phi

(***************************************************************************)
(* Predict.  e is the record of what a call writes on its way: the layers  *)
(* (heap) and Phi, Phi_prime, Phi_dprime (phi).                            *)
(***************************************************************************)
LayerAt(h, iLayer) == h[total_layers[iLayer + 1]]

\* x, then x += s[1], x += s[2], ... in this order.
RECURSIVE SumFrom(_, _, _)
SumFrom(x, s, j) == IF j > Len(s) THEN x ELSE SumFrom(QAdd(x, s[j]), s, j + 1)

\* A variant whose loop stops one neuron early.
ComputeXSkipLast(h, iLayer, iNeuron) ==
    LET prev == LayerAt(h, iLayer - 1)
    IN  SumFrom(LayerAt(h, iLayer).bias[iNeuron + 1],
                [jNeuron \in 1..(prev.n - 1) |->
                    QMul(weights_mat[iLayer][iNeuron + 1][jNeuron],
                         prev.output[jNeuron])], 1)

ComputeX(h, iLayer, iNeuron) ==
    LET prev == LayerAt(h, iLayer - 1)
    IN  SumFrom(LayerAt(h, iLayer).bias[iNeuron + 1],
                [jNeuron \in 1..prev.n |->
                    QMul(weights_mat[iLayer][iNeuron + 1][jNeuron],
                         prev.output[jNeuron])], 1)

ComputePsi(h, iLayer, iNeuron, jInput) ==
    LET prev == LayerAt(h, iLayer - 1)
    IN  SumFrom(Zero,
                [jNeuron \in 1..prev.n |->
                    QMul(weights_mat[iLayer][iNeuron + 1][jNeuron],
                         prev.dYdX[jNeuron][jInput + 1])], 1)

ComputeChi(h, iLayer, iNeuron, jInput, kInput) ==
    LET prev == LayerAt(h, iLayer - 1)
    IN  SumFrom(Zero,
                [jNeuron \in 1..prev.n |->
                    QMul(weights_mat[iLayer][iNeuron + 1][jNeuron],
                         prev.d2YdX2[jNeuron][jInput + 1][kInput + 1])], 1)

\* inputs[iNeuron]: past the end of the vector the read yields the value
\* beyond it.
InputAt(inputs, iNeuron, beyond) ==
    IF iNeuron < Len(inputs) THEN inputs[iNeuron + 1] ELSE beyond

\* A variant that stores the normalized input as the neuron's bias as well.
ComputeInputLayerIntoBias(e, inputs, beyond, iNeuron) ==
    LET x_norm == NormalizeInput(InputAt(inputs, iNeuron, beyond), iNeuron)
    IN  [e EXCEPT !.heap[inputLayer].output[iNeuron + 1] = x_norm,
                  !.heap[inputLayer].bias[iNeuron + 1] = x_norm]

ComputeInputLayer(e, inputs, beyond, iNeuron) ==
    LET nIn == NNeurons(inputLayer)
        x_norm == NormalizeInput(InputAt(inputs, iNeuron, beyond), iNeuron)
        old == e.heap[inputLayer]
        seeded ==
            [old EXCEPT
                !.output[iNeuron + 1] = x_norm,
                !.dYdX[iNeuron + 1] =
                    IF compute_gradient
                    THEN [jInput \in 1..nIn |->
                             IF jInput = iNeuron + 1
                             THEN QDiv(One, GetRegularizationScale(iNeuron, TRUE))
                             ELSE Zero]
                    ELSE @,
                !.d2YdX2[iNeuron + 1] =
                    IF compute_gradient /\ compute_second_gradient
                    THEN [jInput \in 1..nIn |-> [kInput \in 1..nIn |-> Zero]]
                    ELSE @]
    IN  [e EXCEPT !.heap[inputLayer] = seeded]

\* The body of Predict's loops for one neuron of one layer (lines 717-751).
NeuronStep(e, inputs, beyond, iLayer, iNeuron) ==
    IF LayerAt(e.heap, iLayer).is_input
    THEN ComputeInputLayer(e, inputs, beyond, iNeuron)
    ELSE LET nIn == NNeurons(inputLayer)
             id == total_layers[iLayer + 1]
             X == ComputeX(e.heap, iLayer, iNeuron)
             phi == ActivationFunction(activation_function_types[iLayer + 1], X, e.phi)
             psi == [jInput \in 1..nIn |-> ComputePsi(e.heap, iLayer, iNeuron, jInput - 1)]
             old == e.heap[id]
             new ==
                [old EXCEPT
                    !.output[iNeuron + 1] = phi.Phi,
                    !.dYdX[iNeuron + 1] =
                        IF compute_gradient
                        THEN [jInput \in 1..nIn |-> QMul(psi[jInput], phi.Phi_prime)]
                        ELSE @,
                    !.d2YdX2[iNeuron + 1] =
                        IF compute_gradient /\ compute_second_gradient
                        THEN [jInput \in 1..nIn |-> [kInput \in 1..nIn |->
                                 QAdd(QMul(QMul(phi.Phi_dprime, psi[jInput]), psi[kInput]),
                                      QMul(phi.Phi_prime,
                                           ComputeChi(e.heap, iLayer, iNeuron,
                                                      jInput - 1, kInput - 1)))]]
                        ELSE @]
         IN  [heap |-> [e.heap EXCEPT ![id] = new], phi |-> phi]

\* The two loops of Predict (lines 714-753), from neuron iNeuron of layer iLayer on.
RECURSIVE PredictFrom(_, _, _, _, _)
PredictFrom(e, inputs, beyond, iLayer, iNeuron) ==
    IF iLayer >= n_hidden_layers + 2
    THEN e
    ELSE IF iNeuron >= LayerAt(e.heap, iLayer).n
         THEN PredictFrom(e, inputs, beyond, iLayer + 1, 0)
         ELSE CHOOSE after \in
                  {PredictFrom(written, inputs, beyond, iLayer, iNeuron + 1) :
                      written \in {NeuronStep(e, inputs, beyond, iLayer, iNeuron)}} :
                  TRUE

\* DeNormalizeOutputs on the layers h: the output layer's derivatives are
\* scaled in place and copied to the output buffers.
DeNormalizeOutputs(h) ==
    LET nOut == NNeurons(outputLayer)
        nIn == NNeurons(inputLayer)
        out == h[outputLayer]
        scaled ==
            [out EXCEPT
                !.dYdX =
                    IF compute_gradient
                    THEN [iNeuron \in 1..nOut |-> [jInput \in 1..nIn |->
                             QMul(GetRegularizationScale(iNeuron - 1, FALSE),
                                  out.dYdX[iNeuron][jInput])]]
                    ELSE @,
                !.d2YdX2 =
                    IF compute_gradient /\ compute_second_gradient
                    THEN [iNeuron \in 1..nOut |-> [jInput \in 1..nIn |->
                             [kInput \in 1..nIn |->
                                 QMul(GetRegularizationScale(iNeuron - 1, FALSE),
                                      out.d2YdX2[iNeuron][jInput][kInput])]]]
                    ELSE @]
    IN  [heap |-> [h EXCEPT ![outputLayer] = scaled],
         ANN_outputs |->
             [ANN_outputs EXCEPT
                 !.data = [iNeuron \in 1..nOut |->
                              DimensionalizeOutput(out.output[iNeuron], iNeuron - 1)]],
         dOutputs_dInputs |->
             IF compute_gradient THEN scaled.dYdX ELSE dOutputs_dInputs,
         d2Outputs_dInputs2 |->
             IF compute_gradient /\ compute_second_gradient
             THEN scaled.d2YdX2 ELSE d2Outputs_dInputs2]

\* The entries of the three output buffers DeNormalizeOutputs assigns, by the
\* conditions of its loops (lines 679, 688 and 697).
DeNormalizeWrites ==
    LET outs == 0..(NNeurons(outputLayer) - 1)
        ins == 0..(NNeurons(inputLayer) - 1)
    IN  {<<"ANN_outputs", i>> : i \in outs}
        \cup (IF compute_gradient
              THEN {<<"dOutputs_dInputs", i, j>> : i \in outs, j \in ins}
              ELSE {})
        \cup (IF compute_gradient /\ compute_second_gradient
              THEN {<<"d2Outputs_dInputs2", i, j, k>> : i \in outs, j \in ins, k \in ins}
              ELSE {})

MaxCalls == 2

\* What the read of inputs[iNeuron] past the end of the vector can yield: a
\* value lying behind the vector's storage, or no value when that address is
\* not readable.
Unmapped == <<1, 0>>

BeyondReads == {QInt(3), Unmapped}

\* Whether the arrays Predict indexes have the sizes SizeWeights and
\* SizeActivationFunctions give them.
Sized ==
    /\ Len(total_layers) = n_hidden_layers + 2
    /\ Len(weights_mat) = n_hidden_layers + 1
    /\ Len(activation_function_types) >= n_hidden_layers + 2
    /\ ANN_outputs.allocated

\* Predict(inputs).  The code compares inputs.size() with nothing: a vector
\* that is too long is read in part, one that is too short is read past its
\* end (beyond is what that read yields), and nothing is reported.
Predict(inputs, beyond) ==
    /\ Running
    /\ n_calls < MaxCalls
    /\ n_calls' = n_calls + 1
    /\ IF ~Sized \/ (Len(inputs) < NNeurons(inputLayer) /\ beyond = Unmapped)
       THEN /\ fault' = "out_of_range"
            /\ last_call' = [op |-> "Predict", inputs |-> inputs,
                             read_past_end |-> Len(inputs) < NNeurons(inputLayer)]
            /\ UNCHANGED <<heap, phiVars, outVars>>
       ELSE \E e \in {PredictFrom([heap |-> heap,
                                   phi |-> [Phi |-> Phi, Phi_prime |-> Phi_prime,
                                            Phi_dprime |-> Phi_dprime]],
                                  inputs, beyond, 0, 0)} :
            \E d \in {DeNormalizeOutputs(e.heap)} :
                /\ heap' = d.heap
                /\ Phi' = e.phi.Phi
                /\ Phi_prime' = e.phi.Phi_prime
                /\ Phi_dprime' = e.phi.Phi_dprime
                /\ ANN_outputs' = d.ANN_outputs
                /\ dOutputs_dInputs' = d.dOutputs_dInputs
                /\ d2Outputs_dInputs2' = d.d2Outputs_dInputs2
                /\ fault' = fault
                /\ last_call' = [op |-> "Predict", inputs |-> inputs,
                                 read_past_end |-> Len(inputs) < NNeurons(inputLayer),
                                 normalized |-> e.heap[outputLayer],
                                 wrote |-> DeNormalizeWrites]
    /\ UNCHANGED <<nameVars, layerVars, weights_mat, normVars, flagVars, actVars,
                   match_call, reported, n_config>>

ComputeFirstOrderGradient(input) ==
    /\ Running
    /\ n_config < MaxConfig
    /\ n_config' = n_config + 1
    /\ compute_gradient' = input
    /\ last_call' = [op |-> "ComputeFirstOrderGradient"]
    /\ UNCHANGED <<nameVars, layerVars, weightVars, normVars, outVars, phiVars,
                   compute_second_gradient, actVars, match_call, fault, reported,
                   n_calls>>

ComputeSecondOrderGradient(input) ==
    /\ Running
    /\ n_config < MaxConfig
    /\ n_config' = n_config + 1
    /\ compute_second_gradient' = input
    /\ last_call' = [op |-> "ComputeSecondOrderGradient"]
    /\ UNCHANGED <<nameVars, layerVars, weightVars, normVars, outVars, phiVars,
                   compute_gradient, actVars, match_call, fault, reported,
                   n_calls>>

(***************************************************************************)
(* A network as the loader leaves it: DefineInputLayer, DefineOutputLayer, *)
(* PushHiddenLayer per hidden layer, SizeWeights, then SetWeight, SetBias, *)
(* SizeActivationFunctions, SetActivationFunction, SetInputNorm,           *)
(* SetOutputNorm, SetInputRegularization and SetOutputRegularization.      *)
(* Layer 1 of the heap is the input layer, layer 2 the output layer,       *)
(* layer 2 + k the k-th hidden layer.  w is the weight tensor, b the       *)
(* biases per position in total_layers, tags the activation tags.          *)
(***************************************************************************)
\* A name SetActivationFunction was called with for the layer to carry a tag;
\* a tag outside the enumeration comes from a name outside the map.
NameOfTag(tag) ==
    CASE tag = "LINEAR" -> "linear"
      [] tag = "RELU" -> "relu"
      [] tag = "ELU" -> "elu"
      [] tag = OutOfEnum -> "leakyrelu"
      [] OTHER -> "none"

Built(nIn, hidden, nOut, w, b, tags) ==
    LET nH == Len(hidden)
        sizes == <<nIn>> \o hidden \o <<nOut>>
        idOf(l) == IF l = 1 THEN 1 ELSE IF l = nH + 2 THEN 2 ELSE l + 1
        posOf(id) == IF id = 1 THEN 1 ELSE IF id = 2 THEN nH + 2 ELSE id - 1
    IN  /\ n_hidden_layers = nH
        /\ inputLayer = 1
        /\ outputLayer = 2
        /\ hiddenLayers = [k \in 1..nH |-> k + 2]
        /\ total_layers = [l \in 1..(nH + 2) |-> idOf(l)]
        /\ heap = [id \in 1..(nH + 2) |->
                      SizeGradients([CLayer(sizes[posOf(id)]) EXCEPT
                                        !.is_input = (id = 1),
                                        !.bias = b[posOf(id)]], nIn)]
        /\ weights_mat = w
        /\ input_names = [i \in 1..nIn |-> ""]
        /\ output_names = [i \in 1..nOut |-> ""]
        /\ ANN_outputs = [allocated |-> TRUE,
                          data |-> [i \in 1..nOut |-> Indeterminate]]
        /\ dOutputs_dInputs = [i \in 1..nOut |-> [j \in 1..nIn |-> Zero]]
        /\ d2Outputs_dInputs2 =
               [i \in 1..nOut |-> [j \in 1..nIn |-> [k \in 1..nIn |-> Zero]]]
        /\ activation_function_types = tags
        /\ activation_function_names = [l \in 1..Len(tags) |-> NameOfTag(tags[l])]
        /\ compute_gradient = FALSE
        /\ compute_second_gradient = FALSE

(***************************************************************************)
(* The 2-3-1 network of the specification's example: SpecC6.               *)
(***************************************************************************)
Half == Q(1, 2)

\* The rectangular identity: neuron i of the hidden layer copies input i.
IdentityWeights == [i \in 1..3 |-> [j \in 1..2 |-> IF i = j THEN One ELSE Zero]]

\* Every 3 x 2 hidden weight block with entries 0 or 1, the identity among them.
InitC6 ==
    /\ \E hw \in [1..3 -> [1..2 -> {Zero, One}]] :
          Built(2, <<3>>, 1, <<hw, <<[j \in 1..3 |-> One]>>>>,
                <<[i \in 1..2 |-> Zero], [i \in 1..3 |-> Zero], <<Zero>>>>,
                <<"NONE", "LINEAR", "LINEAR">>)
    /\ input_norm = [i \in 1..2 |-> <<Zero, One>>]
    /\ output_norm = <<<<Zero, One>>>>
    /\ input_reg_method = MINMAX
    /\ output_reg_method = MINMAX
    /\ Phi = Indeterminate
    /\ Phi_prime = Indeterminate
    /\ Phi_dprime = Indeterminate
    /\ Unobserved

NextC6 ==
    \/ \E b \in BOOLEAN : ComputeFirstOrderGradient(b)
    \/ \E b \in BOOLEAN : ComputeSecondOrderGradient(b)
    \/ \E x \in {<<Half, Half>>, <<One, Zero>>} : Predict(x, Zero)

SpecC6 == InitC6 /\ [][NextC6]_vars

\* The example's call has returned: Predict((0.5, 0.5)) with first-derivative
\* mode on, on the network with identity hidden weights.
ExampleEvaluated ==
    /\ last_call.op = "Predict"
    /\ last_call.inputs = <<Half, Half>>
    /\ compute_gradient
    /\ weights_mat[1] = IdentityWeights
    /\ fault = "none"

\* C6 as stated: the example yields output 1.5 and first derivative (1, 1).
C6_ExampleYieldsThreeHalves ==
    ExampleEvaluated =>
        /\ ANN_outputs.data = <<Q(3, 2)>>
        /\ dOutputs_dInputs = <<<<One, One>>>>

\* C6 amended: the example yields output 1.0 (the sum of the two normalized
\* inputs) and first derivative (1, 1).
C6_ExampleYieldsOne ==
    ExampleEvaluated =>
        /\ ANN_outputs.data = <<One>>
        /\ dOutputs_dInputs = <<<<One, One>>>>

C6_Witness ==
    /\ ExampleEvaluated
    /\ n_calls = 1
    /\ ANN_outputs.data = <<One>>
    /\ dOutputs_dInputs = <<<<One, One>>>>

\* With output weights (1, 1, 1) and zero biases no hidden weight block gives
\* both the derivative (1, 1) and an output other than 1.0 at (0.5, 0.5).
C6_NoWeightsGiveBoth ==
    (/\ last_call.op = "Predict"
     /\ last_call.inputs = <<Half, Half>>
     /\ compute_gradient
     /\ dOutputs_dInputs = <<<<One, One>>>>) =>
        ANN_outputs.data = <<One>>

(***************************************************************************)
(* Evaluation of loaded networks: SpecEval.                                *)
(***************************************************************************)
MaxSeed == 0

\* The architectures of the loaded networks: input size, hidden sizes,
\* output size.
EvalArchs ==
    {[nIn |-> 2, hidden |-> <<2>>, nOut |-> 1],
     [nIn |-> 1, hidden |-> <<2, 1>>, nOut |-> 2]}

\* The values SetWeight and SetBias store, by layer and neuron indices.
SeedWeights == <<1, -1, 2, 1>>

SeedBiases == <<0, 1, -1>>

WeightOf(seed, l, i, j) == QInt(SeedWeights[((seed + l + 2 * i + 3 * j) % 4) + 1])

BiasOf(seed, l, i) == QInt(SeedBiases[((seed + l + i) % 3) + 1])

LoadedWeights(arch, seed) ==
    LET sizes == <<arch.nIn>> \o arch.hidden \o <<arch.nOut>>
    IN  [l \in 1..(Len(sizes) - 1) |->
            [i \in 1..sizes[l + 1] |-> [j \in 1..sizes[l] |-> WeightOf(seed, l, i, j)]]]

LoadedBiases(arch, seed) ==
    LET sizes == <<arch.nIn>> \o arch.hidden \o <<arch.nOut>>
    IN  [l \in 1..Len(sizes) |->
            [i \in 1..sizes[l] |-> IF l = 1 THEN Zero ELSE BiasOf(seed, l, i)]]

\* The pairs SetInputNorm and SetOutputNorm store: every strategy's scale is
\* non-zero, and the min-max scale differs from the second parameter.
LoadedInputNorm(i) == IF i % 2 = 1 THEN <<QInt(-1), One>> ELSE <<Zero, QInt(2)>>

LoadedOutputNorm(i) == IF i % 2 = 1 THEN <<One, QInt(3)>> ELSE <<Zero, One>>

\* The strategies SetInputRegularization and SetOutputRegularization store.
LoadedMethods == {<<MINMAX, MINMAX>>, <<STANDARD, MINMAX>>, <<MINMAX, ROBUST>>}

\* What Phi, Phi_prime and Phi_dprime, members without an initializer, hold
\* when they are first read.
UninitializedReads == {Zero, QInt(3)}

InitEval ==
    /\ \E arch \in EvalArchs, seed \in 0..MaxSeed :
          /\ Built(arch.nIn, arch.hidden, arch.nOut,
                   LoadedWeights(arch, seed), LoadedBiases(arch, seed),
                   [l \in 1..(Len(arch.hidden) + 2) |->
                       IF l = 1 THEN "NONE" ELSE "LINEAR"])
          /\ input_norm = [i \in 1..arch.nIn |-> LoadedInputNorm(i)]
          /\ output_norm = [i \in 1..arch.nOut |-> LoadedOutputNorm(i)]
    /\ \E methods \in LoadedMethods :
          /\ input_reg_method = methods[1]
          /\ output_reg_method = methods[2]
    /\ \E u \in UninitializedReads :
          /\ Phi = u
          /\ Phi_prime = u
          /\ Phi_dprime = u
    /\ Unobserved

\* The vectors passed to Predict: of the declared length, one element short
\* and one element long.
EvalInputs(nIn) ==
    {[i \in 1..nIn |-> Zero], [i \in 1..nIn |-> One],
     [i \in 1..(nIn - 1) |-> One], [i \in 1..(nIn + 1) |-> One]}

EvalNames == {"linear", "relu", "leakyrelu"}

NextEval ==
    \/ \E b \in BOOLEAN : ComputeFirstOrderGradient(b)
    \/ \E b \in BOOLEAN : ComputeSecondOrderGradient(b)
    \/ \E i \in 1..(n_hidden_layers + 1), name \in EvalNames :
          SetActivationFunction(i, name)
    \/ \E x \in EvalInputs(NNeurons(inputLayer)), beyond \in BeyondReads :
          Predict(x, beyond)

SpecEval == InitEval /\ [][NextEval]_vars

(***************************************************************************)
(* The affine map of a network of LINEAR layers, from its definition:      *)
(* normalize by the input strategy, apply bias + weights x previous layer  *)
(* per layer, denormalize by the output strategy; its Jacobian is the      *)
(* product of the weight blocks, scaled.                                   *)
(***************************************************************************)
ScaleBy(method, norm) == IF method = MINMAX THEN QSub(norm[2], norm[1]) ELSE norm[2]

Dot(a, b) == SumFrom(Zero, [k \in 1..Len(a) |-> QMul(a[k], b[k])], 1)

RECURSIVE AffineLayer(_, _)
AffineLayer(x, l) ==
    IF l = 1
    THEN x
    ELSE LET prev == AffineLayer(x, l - 1)
             block == weights_mat[l - 1]
             bias == heap[total_layers[l]].bias
         IN  [i \in 1..Len(block) |-> QAdd(bias[i], Dot(block[i], prev))]

AffineOutputs(inputs) ==
    LET x == [j \in 1..NNeurons(inputLayer) |->
                 QDiv(QSub(inputs[j], input_norm[j][1]),
                      ScaleBy(input_reg_method, input_norm[j]))]
        y == AffineLayer(x, n_hidden_layers + 2)
    IN  [i \in 1..NNeurons(outputLayer) |->
            QAdd(QMul(ScaleBy(output_reg_method, output_norm[i]), y[i]),
                 output_norm[i][1])]

RECURSIVE WeightProduct(_)
WeightProduct(l) ==
    IF l = 1
    THEN weights_mat[1]
    ELSE LET left == weights_mat[l]
             right == WeightProduct(l - 1)
         IN  [i \in 1..Len(left) |->
                [j \in 1..Len(right[1]) |->
                    SumFrom(Zero, [k \in 1..Len(right) |->
                                      QMul(left[i][k], right[k][j])], 1)]]

AffineJacobian ==
    LET product == WeightProduct(n_hidden_layers + 1)
    IN  [i \in 1..NNeurons(outputLayer) |->
            [j \in 1..NNeurons(inputLayer) |->
                QDiv(QMul(ScaleBy(output_reg_method, output_norm[i]), product[i][j]),
                     ScaleBy(input_reg_method, input_norm[j]))]]

\* Predict has returned from a call with a vector of the declared length, on
\* a network whose non-input layers are all LINEAR, first-derivative mode on.
LinearEvaluated ==
    /\ last_call.op = "Predict"
    /\ fault = "none"
    /\ Len(last_call.inputs) = NNeurons(inputLayer)
    /\ compute_gradient
    /\ \A l \in 2..(n_hidden_layers + 2) : activation_function_types[l] = "LINEAR"

\* C5: on a network of LINEAR layers Predict with first-derivative mode on
\* stores the denormalized value of the affine composition as output i and
\* output_scale(i) * (product of the weight matrices)(i, j) / input_scale(j)
\* as the derivative of output i with respect to input j.
C5_LinearNetworkIsAffine ==
    LinearEvaluated =>
        /\ ANN_outputs.data = AffineOutputs(last_call.inputs)
        /\ dOutputs_dInputs = AffineJacobian

\* The same when the output strategy selects the formulas the input strategy
\* selects: both min-max, or neither.
C5_AffineWhenStrategiesSelectAlike ==
    (/\ LinearEvaluated
     /\ (input_reg_method = MINMAX) <=> (output_reg_method = MINMAX)) =>
        /\ ANN_outputs.data = AffineOutputs(last_call.inputs)
        /\ dOutputs_dInputs = AffineJacobian

\* C7: a Predict call that directly follows a Predict call with the same
\* inputs (so with the same flags, weights, biases, activations and
\* normalization) leaves the three output buffers as they were.
C7_PredictIdempotent ==
    [][(/\ last_call.op = "Predict"
        /\ last_call'.op = "Predict"
        /\ n_calls' = n_calls + 1
        /\ last_call'.inputs = last_call.inputs
        /\ Len(last_call.inputs) = NNeurons(inputLayer)
        /\ fault' = "none") =>
            /\ ANN_outputs' = ANN_outputs
            /\ dOutputs_dInputs' = dOutputs_dInputs
            /\ d2Outputs_dInputs2' = d2Outputs_dInputs2]_vars

\* The same for networks whose tags are all values of the enumeration.
C7_IdempotentWithTagsOfTheEnumeration ==
    [][(/\ last_call.op = "Predict"
        /\ last_call'.op = "Predict"
        /\ n_calls' = n_calls + 1
        /\ last_call'.inputs = last_call.inputs
        /\ Len(last_call.inputs) = NNeurons(inputLayer)
        /\ fault' = "none"
        /\ \A l \in 1..Len(activation_function_types) :
               activation_function_types[l] \in ActivationTags) =>
            /\ ANN_outputs' = ANN_outputs
            /\ dOutputs_dInputs' = dOutputs_dInputs
            /\ d2Outputs_dInputs2' = d2Outputs_dInputs2]_vars

\* C10: a Predict call with a vector whose length is not the input count
\* reports a dimension mismatch and reads nothing past the end of the vector.
C10_LengthMismatchReported ==
    (/\ last_call.op = "Predict"
     /\ Len(last_call.inputs) # NNeurons(inputLayer)) =>
        /\ reported = "DimensionMismatchError"
        /\ ~last_call.read_past_end

(***************************************************************************)
(* The output stage.                                                       *)
(***************************************************************************)
\* Predict has returned from a call with a vector of the declared length.
Evaluated ==
    /\ last_call.op = "Predict"
    /\ fault = "none"
    /\ Len(last_call.inputs) = NNeurons(inputLayer)

\* C11: the output value is the normalized output denormalized by the output
\* strategy, and the first and second derivatives stored are the normalized
\* ones times the output strategy's scale factor, whatever the input strategy.
C11_OutputStageUsesOutputStrategy ==
    Evaluated =>
        \A i \in 1..NNeurons(outputLayer) :
            LET factor == ScaleBy(output_reg_method, output_norm[i])
                y == last_call.normalized
            IN  /\ ANN_outputs.data[i] =
                       QAdd(QMul(factor, y.output[i]), output_norm[i][1])
                /\ compute_gradient =>
                       \A j \in 1..NNeurons(inputLayer) :
                           dOutputs_dInputs[i][j] = QMul(factor, y.dYdX[i][j])
                /\ (compute_gradient /\ compute_second_gradient) =>
                       \A j, k \in 1..NNeurons(inputLayer) :
                           d2Outputs_dInputs2[i][j][k] = QMul(factor, y.d2YdX2[i][j][k])

\* What the output stage does instead: the same with the formulas the input
\* strategy selects.
C11_OutputStageUsesInputStrategy ==
    Evaluated =>
        \A i \in 1..NNeurons(outputLayer) :
            LET factor == ScaleBy(input_reg_method, output_norm[i])
                y == last_call.normalized
            IN  /\ ANN_outputs.data[i] =
                       QAdd(QMul(factor, y.output[i]), output_norm[i][1])
                /\ compute_gradient =>
                       \A j \in 1..NNeurons(inputLayer) :
                           dOutputs_dInputs[i][j] = QMul(factor, y.dYdX[i][j])

(***************************************************************************)
(* Normalization of one variable: SpecNorm.  A 1-1-1 network of LINEAR     *)
(* layers with weights 1 and biases 0, whose input and output carry the    *)
(* same parameter pair and the same strategy.                              *)
(***************************************************************************)
MaxNorm == 2

QLess(a, b) == a[1] * b[2] < b[1] * a[2]

NormValues == {QInt(n) : n \in (-MaxNorm)..MaxNorm}

\* The pairs of non-zero scale under a strategy.
NormPairs(method) ==
    {pair \in NormValues \X NormValues : ScaleBy(method, pair) # Zero}

\* The raw values tried: those of the pairs and values around ten units.
TrialValues == NormValues \cup {QInt(-11), QInt(-10), QInt(10), QInt(11)}

\* A variant whose bounds are exclusive.
InsideExclusive(val_input, iInput) ==
    LET norm == input_norm[iInput + 1]
        val_input_norm == QDiv(QSub(val_input, norm[1]), norm[2])
    IN  CASE input_reg_method = MINMAX ->
                ~(~QLess(norm[1], val_input) \/ ~QLess(val_input, norm[2]))
          [] input_reg_method = STANDARD ->
                ~(~QLess(QInt(-2), val_input_norm) \/ ~QLess(val_input_norm, QInt(2)))
          [] input_reg_method = ROBUST ->
                ~(~QLess(QInt(-10), val_input_norm) \/ ~QLess(val_input_norm, QInt(10)))

\* The value CheckInputInclusion returns (the local variable inside).
Inside(val_input, iInput) ==
    LET norm == input_norm[iInput + 1]
        val_input_norm == QDiv(QSub(val_input, norm[1]), norm[2])
    IN  CASE input_reg_method = MINMAX ->
                ~(QLess(val_input, norm[1]) \/ QLess(norm[2], val_input))
          [] input_reg_method = STANDARD ->
                ~(QLess(val_input_norm, QInt(-2)) \/ QLess(QInt(2), val_input_norm))
          [] input_reg_method = ROBUST ->
                ~(QLess(val_input_norm, QInt(-10)) \/ QLess(QInt(10), val_input_norm))

\* CheckInputInclusion is a const member function: it returns a value.
CheckInputInclusion(val_input, iInput) ==
    /\ Running
    /\ last_call' = [op |-> "CheckInputInclusion", val_input |-> val_input,
                     iInput |-> iInput, inside |-> Inside(val_input, iInput)]
    /\ UNCHANGED <<nameVars, layerVars, weightVars, normVars, outVars, phiVars,
                   flagVars, actVars, match_call, fault, reported, n_calls, n_config>>

\* A caller normalizes a value with NormalizeInput and hands the result to
\* DimensionalizeOutput; both are const member functions.
NormalizeThenDimensionalize(x, i) ==
    /\ Running
    /\ last_call' = [op |-> "NormalizeThenDimensionalize", x |-> x, i |-> i,
                     normalized |-> NormalizeInput(x, i),
                     result |-> DimensionalizeOutput(NormalizeInput(x, i), i)]
    /\ UNCHANGED <<nameVars, layerVars, weightVars, normVars, outVars, phiVars,
                   flagVars, actVars, match_call, fault, reported, n_calls, n_config>>

InitNorm ==
    /\ Built(1, <<1>>, 1, <<<<<<One>>>>, <<<<One>>>>>>, <<<<Zero>>, <<Zero>>, <<Zero>>>>,
             <<"NONE", "LINEAR", "LINEAR">>)
    /\ \E method \in ScalingFunctions :
          /\ input_reg_method = method
          /\ output_reg_method = method
          /\ \E pair \in NormPairs(method) :
                /\ input_norm = <<pair>>
                /\ output_norm = <<pair>>
    /\ Phi = Indeterminate
    /\ Phi_prime = Indeterminate
    /\ Phi_dprime = Indeterminate
    /\ Unobserved

NextNorm ==
    \/ \E x \in TrialValues : NormalizeThenDimensionalize(x, 0)
    \/ \E x \in TrialValues : CheckInputInclusion(x, 0)
    \/ \E x \in TrialValues : Predict(<<x>>, Zero)

SpecNorm == InitNorm /\ [][NextNorm]_vars

QAbs(a) == <<Abs(a[1]), a[2]>>

QLessEq(a, b) == ~QLess(b, a)

\* The trust region of the active input strategy, bounds included.
InTrustRegion(x, pair) ==
    CASE input_reg_method = MINMAX -> QLessEq(pair[1], x) /\ QLessEq(x, pair[2])
      [] input_reg_method = STANDARD ->
            QLessEq(QDiv(QAbs(QSub(x, pair[1])), pair[2]), QInt(2))
      [] input_reg_method = ROBUST ->
            QLessEq(QDiv(QAbs(QSub(x, pair[1])), pair[2]), QInt(10))

\* The second parameter of a standard or robust pair is a spread: positive.
PairHasMeaning(pair) == input_reg_method = MINMAX \/ QLess(Zero, pair[2])

\* C13: CheckInputInclusion returns true exactly for values in the trust
\* region of the input strategy, bounds included; it changes nothing of the
\* network; and Predict stores the result of the unclamped value for inputs
\* outside the region as for inputs inside it, reporting nothing.
C13_InclusionIsTrustRegionAndAdvisory ==
    /\ [](/\ (last_call.op = "CheckInputInclusion" /\ PairHasMeaning(input_norm[1])) =>
                (last_call.inside <=> InTrustRegion(last_call.val_input, input_norm[1]))
          /\ Evaluated =>
                /\ heap[inputLayer].output[1] =
                       QDiv(QSub(last_call.inputs[1], input_norm[1][1]),
                            ScaleBy(input_reg_method, input_norm[1]))
                /\ ANN_outputs.data = last_call.inputs
                /\ reported = "none")
    /\ [][(last_call'.op = "CheckInputInclusion") =>
              UNCHANGED <<nameVars, layerVars, weightVars, normVars, outVars, phiVars,
                          flagVars, actVars, fault, reported>>]_vars

\* A value on the bound of the standard trust region, two spreads above the
\* mean, is inside.
C13_Witness ==
    /\ last_call.op = "CheckInputInclusion"
    /\ input_reg_method = STANDARD
    /\ input_norm = <<<<Zero, One>>>>
    /\ last_call.val_input = QInt(2)
    /\ last_call.inside

\* Predict has evaluated a value outside the trust region.
C13_EvaluatedOutside ==
    /\ Evaluated
    /\ PairHasMeaning(input_norm[1])
    /\ ~InTrustRegion(last_call.inputs[1], input_norm[1])

\* C14: a SetWeight or SetBias call with indices inside the declared layer
\* sizes, issued after the layers are declared and before SizeWeights,
\* addresses allocated storage.
C14_AssignmentBeforeSizingIsAllocated ==
    (/\ last_call.op \in {"SetWeight", "SetBias"}
     /\ last_call.in_declared_range
     /\ last_call.before_sizing) =>
        fault = "none"

\* The same call issued after SizeWeights has sized the declared layers
\* stores its value.
C14_AssignmentAfterSizingIsStored ==
    (/\ last_call.op \in {"SetWeight", "SetBias"}
     /\ last_call.in_declared_range
     /\ last_call.sizing_current) =>
        /\ fault = "none"
        /\ (last_call.op = "SetBias") =>
               heap[total_layers[last_call.i_layer + 1]].bias[last_call.i_neuron + 1] =
                   last_call.value
        /\ (last_call.op = "SetWeight") =>
               weights_mat[last_call.i_layer + 1][last_call.j_neuron + 1]
                          [last_call.i_neuron + 1] = last_call.value

\* The weight block of every gap l has one row per neuron of layer l + 1 and
\* one column per neuron of layer l, and the name lists have the lengths of
\* the input and output layers.
WeightAndNameShapes ==
    /\ Len(weights_mat) = n_hidden_layers + 1
    /\ \A l \in 1..(n_hidden_layers + 1) :
          /\ Len(weights_mat[l]) = NNeurons(total_layers[l + 1])
          /\ \A i \in 1..Len(weights_mat[l]) :
                Len(weights_mat[l][i]) = NNeurons(total_layers[l])
    /\ Len(input_names) = NNeurons(inputLayer)
    /\ Len(output_names) = NNeurons(outputLayer)

\* C16: after a construction sequence that ends with SizeWeights the weight
\* blocks and the name lists have the shapes of the layers, and the
\* activation tag array has one entry per layer.
C16_ShapeInvariantsAfterSizeWeights ==
    (last_call.op = "SizeWeights" /\ last_call.declared) =>
        /\ WeightAndNameShapes
        /\ Len(activation_function_types) = n_hidden_layers + 2

\* The part of it that SizeWeights and the Define calls establish.
C16_WeightAndNameShapesAfterSizeWeights ==
    (last_call.op = "SizeWeights" /\ last_call.declared) => WeightAndNameShapes

(***************************************************************************)
(* Predict neuron by neuron: SpecSteps.  While a call runs, last_call is   *)
(* its frame: the loop indices, the neurons visited so far, the buffers    *)
(* written so far and the reads that met a buffer not yet written by this  *)
(* call.                                                                   *)
(***************************************************************************)
InCall == last_call.op = "PredictRunning"

\* A variant of the loop increments that leaves a layer after its first neuron.
NextPositionOneNeuron(iLayer, iNeuron) == <<iLayer + 1, 0>>

\* The loop increments of lines 714-716: the next neuron of the layer, or
\* the first neuron of the next layer.
NextPosition(iLayer, iNeuron) ==
    IF iNeuron + 1 < NNeurons(total_layers[iLayer + 1])
    THEN <<iLayer, iNeuron + 1>>
    ELSE <<iLayer + 1, 0>>

\* The buffers of the previous layer the body reads for one neuron: the
\* outputs in ComputeX, the first derivatives in ComputePsi (line 733), the
\* second derivatives in ComputeChi (line 741); none for the input layer.
ReadsOf(iLayer) ==
    IF LayerAt(heap, iLayer).is_input
    THEN {}
    ELSE LET prev == 0..(NNeurons(total_layers[iLayer]) - 1)
         IN  {<<"output", iLayer - 1, j>> : j \in prev}
             \cup (IF compute_gradient
                   THEN {<<"dYdX", iLayer - 1, j>> : j \in prev} ELSE {})
             \cup (IF compute_gradient /\ compute_second_gradient
                   THEN {<<"d2YdX2", iLayer - 1, j>> : j \in prev} ELSE {})

\* The buffers of the neuron the body writes (lines 511-526, 728-746).
WritesOf(iLayer, iNeuron) ==
    {<<"output", iLayer, iNeuron>>}
    \cup (IF compute_gradient THEN {<<"dYdX", iLayer, iNeuron>>} ELSE {})
    \cup (IF compute_gradient /\ compute_second_gradient
          THEN {<<"d2YdX2", iLayer, iNeuron>>} ELSE {})

\* Predict is entered: the loop indices are (0, 0).
PredictEnter(inputs) ==
    /\ Running
    /\ ~InCall
    /\ n_calls < MaxCalls
    /\ IF Sized
       THEN /\ last_call' = [op |-> "PredictRunning", inputs |-> inputs,
                             iLayer |-> 0, iNeuron |-> 0, visited |-> << >>,
                             written |-> {}, stale_reads |-> {}]
            /\ fault' = fault
       ELSE /\ last_call' = [op |-> "Predict", inputs |-> inputs,
                             read_past_end |-> Len(inputs) < NNeurons(inputLayer)]
            /\ fault' = "out_of_range"
    /\ UNCHANGED <<nameVars, layerVars, weightVars, normVars, outVars, phiVars,
                   flagVars, actVars, match_call, reported, n_calls, n_config>>

\* One pass of the loop body, for the neuron at the loop indices.
PredictNeuron(beyond) ==
    /\ Running
    /\ InCall
    /\ last_call.iLayer < n_hidden_layers + 2
    /\ LET iLayer == last_call.iLayer
           iNeuron == last_call.iNeuron
           next == NextPosition(iLayer, iNeuron)
       IN  IF iNeuron >= Len(last_call.inputs) /\ LayerAt(heap, iLayer).is_input
              /\ beyond = Unmapped
           THEN /\ fault' = "out_of_range"
                /\ UNCHANGED <<heap, phiVars, last_call>>
           ELSE \E e \in {NeuronStep([heap |-> heap,
                                      phi |-> [Phi |-> Phi, Phi_prime |-> Phi_prime,
                                               Phi_dprime |-> Phi_dprime]],
                                     last_call.inputs, beyond, iLayer, iNeuron)} :
                    /\ heap' = e.heap
                    /\ Phi' = e.phi.Phi
                    /\ Phi_prime' = e.phi.Phi_prime
                    /\ Phi_dprime' = e.phi.Phi_dprime
                    /\ fault' = fault
                    /\ last_call' =
                           [last_call EXCEPT
                               !.iLayer = next[1],
                               !.iNeuron = next[2],
                               !.visited = Append(@, <<iLayer, iNeuron>>),
                               !.written = @ \cup WritesOf(iLayer, iNeuron),
                               !.stale_reads =
                                   @ \cup (ReadsOf(iLayer) \ last_call.written)]
    /\ UNCHANGED <<nameVars, layerVars, weights_mat, normVars, outVars, flagVars,
                   actVars, match_call, reported, n_calls, n_config>>

\* The loops are left: DeNormalizeOutputs runs and Predict returns.
PredictReturn ==
    /\ Running
    /\ InCall
    /\ last_call.iLayer >= n_hidden_layers + 2
    /\ \E d \in {DeNormalizeOutputs(heap)} :
          /\ heap' = d.heap
          /\ ANN_outputs' = d.ANN_outputs
          /\ dOutputs_dInputs' = d.dOutputs_dInputs
          /\ d2Outputs_dInputs2' = d.d2Outputs_dInputs2
    /\ n_calls' = n_calls + 1
    /\ last_call' = [op |-> "Predict", inputs |-> last_call.inputs,
                     read_past_end |-> Len(last_call.inputs) < NNeurons(inputLayer),
                     normalized |-> heap[outputLayer],
                     wrote |-> DeNormalizeWrites,
                     visited |-> last_call.visited,
                     stale_reads |-> last_call.stale_reads]
    /\ UNCHANGED <<nameVars, layerVars, weights_mat, normVars, phiVars, flagVars,
                   actVars, match_call, fault, reported, n_config>>

StepTags == {"LINEAR", "RELU", OutOfEnum}

\* The vectors passed to Predict here: of the declared length.
StepInputs(nIn) == {[i \in 1..nIn |-> Zero], [i \in 1..nIn |-> One]}

InitSteps ==
    /\ \E arch \in EvalArchs, seed \in 0..MaxSeed, tag \in StepTags :
          /\ Built(arch.nIn, arch.hidden, arch.nOut,
                   LoadedWeights(arch, seed), LoadedBiases(arch, seed),
                   [l \in 1..(Len(arch.hidden) + 2) |->
                       IF l = 1 THEN "NONE" ELSE IF l = 2 THEN tag ELSE "LINEAR"])
          /\ input_norm = [i \in 1..arch.nIn |-> LoadedInputNorm(i)]
          /\ output_norm = [i \in 1..arch.nOut |-> LoadedOutputNorm(i)]
    /\ \E methods \in LoadedMethods :
          /\ input_reg_method = methods[1]
          /\ output_reg_method = methods[2]
    /\ \E u \in UninitializedReads :
          /\ Phi = u
          /\ Phi_prime = u
          /\ Phi_dprime = u
    /\ Unobserved

\* One caller: the flags are set between calls of Predict.
NextSteps ==
    \/ ~InCall /\ \E b \in BOOLEAN : ComputeFirstOrderGradient(b)
    \/ ~InCall /\ \E b \in BOOLEAN : ComputeSecondOrderGradient(b)
    \/ \E x \in StepInputs(NNeurons(inputLayer)) : PredictEnter(x)
    \/ PredictNeuron(Zero)
    \/ PredictReturn

SpecSteps == InitSteps /\ [][NextSteps]_vars

\* What evaluation is not to change: names, layers, weights, normalization,
\* activations, flags, and every layer's neuron count and biases.
Architecture ==
    <<nameVars, layerVars, weights_mat, normVars, actVars, flagVars,
      [id \in 1..Len(heap) |-> <<heap[id].n, heap[id].is_input, heap[id].bias>>]>>

\* C15: no step of a Predict call, from its entry to its return, changes the
\* layer count, a neuron count, a weight, a bias, an activation tag, a
\* normalization pair or strategy, or a name list.
C15_PredictKeepsArchitecture ==
    [][(InCall \/ last_call'.op = "PredictRunning") => Architecture' = Architecture]_vars

\* A second call has returned and has changed the output buffer.
C15_Witness ==
    /\ last_call.op = "Predict"
    /\ fault = "none"
    /\ n_calls = 2
    /\ last_call.inputs = [i \in 1..NNeurons(inputLayer) |-> One]
    /\ \A i \in 1..NNeurons(outputLayer) : ANN_outputs.data[i] # Indeterminate

\* The neurons in the order of the loops, from layer l on.
RECURSIVE VisitOrder(_)
VisitOrder(l) ==
    IF l >= n_hidden_layers + 2
    THEN << >>
    ELSE [i \in 1..NNeurons(total_layers[l + 1]) |-> <<l, i - 1>>] \o VisitOrder(l + 1)

\* C17: a Predict call visits the neurons layer by layer from input to
\* output, each once; while it computes a layer, every buffer of the previous
\* layer it reads was written earlier in the same call; it returns, after
\* DeNormalizeOutputs, when all neurons are visited.
C17_LayersInOrderOnFreshValues ==
    /\ InCall =>
          LET done == Len(last_call.visited)
          IN  /\ done <= Len(VisitOrder(0))
              /\ last_call.visited = SubSeq(VisitOrder(0), 1, done)
              /\ IF done < Len(VisitOrder(0))
                 THEN <<last_call.iLayer, last_call.iNeuron>> = VisitOrder(0)[done + 1]
                 ELSE last_call.iLayer = n_hidden_layers + 2
              /\ last_call.stale_reads = {}
    /\ (last_call.op = "Predict" /\ fault = "none") =>
          /\ last_call.visited = VisitOrder(0)
          /\ last_call.stale_reads = {}

\* A call with both derivative modes on has returned from a network with two
\* hidden layers, having read first and second derivatives on its way.
C17_Witness ==
    /\ last_call.op = "Predict"
    /\ fault = "none"
    /\ n_hidden_layers = 2
    /\ compute_gradient
    /\ compute_second_gradient
    /\ Len(last_call.visited) = 6
    /\ last_call.wrote # {}

(***************************************************************************)
(* The output buffers and the derivative modes.                            *)
(***************************************************************************)
\* The entries of the three output buffers as SizeWeights allocates them.
AllocatedEntries ==
    {<<"ANN_outputs", i - 1>> : i \in DOMAIN ANN_outputs.data}
    \cup UNION {{<<"dOutputs_dInputs", i - 1, j - 1>> : j \in DOMAIN dOutputs_dInputs[i]} :
                   i \in DOMAIN dOutputs_dInputs}
    \cup UNION {UNION {{<<"d2Outputs_dInputs2", i - 1, j - 1, k - 1>> :
                          k \in DOMAIN d2Outputs_dInputs2[i][j]} :
                          j \in DOMAIN d2Outputs_dInputs2[i]} :
                   i \in DOMAIN d2Outputs_dInputs2}

SecondDerivativeEntries == {entry \in AllocatedEntries : entry[1] = "d2Outputs_dInputs2"}

\* C18: after any Predict call, whatever the derivative-mode flags, every
\* entry of ANN_outputs, dOutputs_dInputs and d2Outputs_dInputs2 was assigned
\* by that call.
C18_EveryCallOverwritesAllBuffers ==
    Evaluated => last_call.wrote = AllocatedEntries

\* What a call assigns: the output buffer always, dOutputs_dInputs when
\* first-derivative mode is on, d2Outputs_dInputs2 when both modes are on;
\* a buffer it does not assign holds what it held before the call.
C18_BuffersKeptWhenModeIsOff ==
    [][(last_call'.op = "Predict" /\ fault' = "none") =>
          /\ {entry \in AllocatedEntries : entry[1] = "ANN_outputs"} \subseteq last_call'.wrote
          /\ IF compute_gradient
             THEN {entry \in AllocatedEntries : entry[1] = "dOutputs_dInputs"}
                      \subseteq last_call'.wrote
             ELSE dOutputs_dInputs' = dOutputs_dInputs
          /\ IF compute_gradient /\ compute_second_gradient
             THEN SecondDerivativeEntries \subseteq last_call'.wrote
             ELSE d2Outputs_dInputs2' = d2Outputs_dInputs2]_vars

\* C20: with second-derivative mode on, also when first-derivative mode is
\* off, a Predict call sets Phi_dprime for the pre-activation it evaluates
\* (0 for the LINEAR output layer) and assigns every entry of
\* d2Outputs_dInputs2.
C20_SecondModeProducesSecondDerivatives ==
    (Evaluated /\ compute_second_gradient) =>
        /\ SecondDerivativeEntries \subseteq last_call.wrote
        /\ activation_function_types[n_hidden_layers + 2] = "LINEAR" => Phi_dprime = Zero

\* The same with first-derivative mode on as well.
C20_SecondDerivativesWhenBothModesOn ==
    (Evaluated /\ compute_gradient /\ compute_second_gradient) =>
        /\ SecondDerivativeEntries \subseteq last_call.wrote
        /\ activation_function_types[n_hidden_layers + 2] = "LINEAR" => Phi_dprime = Zero

(***************************************************************************)
(* ActivationFunction on its own: SpecAct.                                 *)
(***************************************************************************)
MaxAct == 2

\* The pre-activation values tried: halves on both sides of zero, and zero.
ActInputs == {Q(k, 2) : k \in (-MaxAct)..MaxAct}

ActTags == {"RELU", "ELU"}

\* ActivationFunction(iLayer, input) called by itself.
ActivationFunctionCall(iLayer, input) ==
    /\ Running
    /\ n_calls < MaxCalls
    /\ n_calls' = n_calls + 1
    /\ \E phi \in {ActivationFunction(activation_function_types[iLayer + 1], input,
                                      [Phi |-> Phi, Phi_prime |-> Phi_prime,
                                       Phi_dprime |-> Phi_dprime])} :
          /\ Phi' = phi.Phi
          /\ Phi_prime' = phi.Phi_prime
          /\ Phi_dprime' = phi.Phi_dprime
    /\ last_call' = [op |-> "ActivationFunction",
                     tag |-> activation_function_types[iLayer + 1],
                     input |-> input]
    /\ UNCHANGED <<nameVars, layerVars, weightVars, normVars, outVars, flagVars,
                   actVars, match_call, fault, reported, n_config>>

InitAct ==
    /\ \E tag \in ActTags :
          Built(1, <<1>>, 1, <<<<<<One>>>>, <<<<One>>>>>>, <<<<Zero>>, <<Zero>>, <<Zero>>>>,
                <<"NONE", tag, "LINEAR">>)
    /\ input_norm = <<<<Zero, One>>>>
    /\ output_norm = <<<<Zero, One>>>>
    /\ input_reg_method = MINMAX
    /\ output_reg_method = MINMAX
    /\ \E u \in UninitializedReads :
          /\ Phi = u
          /\ Phi_prime = u
          /\ Phi_dprime = u
    /\ Unobserved

NextAct ==
    \/ \E b \in BOOLEAN : ComputeFirstOrderGradient(b)
    \/ \E b \in BOOLEAN : ComputeSecondOrderGradient(b)
    \/ \E iLayer \in 1..(n_hidden_layers + 1), x \in ActInputs :
          ActivationFunctionCall(iLayer, x)

SpecAct == InitAct /\ [][NextAct]_vars

\* ActivationFunction has returned with both derivative modes on.
Activated ==
    /\ last_call.op = "ActivationFunction"
    /\ compute_gradient
    /\ compute_second_gradient

\* C19: with both derivative modes on, RELU and ELU give Phi_dprime = 0 for
\* every pre-activation, on both sides of zero; RELU gives value 0 and first
\* derivative 0 for every pre-activation <= 0.
C19_ReluAndEluSecondDerivativeIsZero ==
    (Activated /\ last_call.tag \in ActTags) =>
        /\ Phi_dprime = Zero
        /\ (last_call.tag = "RELU" /\ ~QPos(last_call.input)) =>
              (Phi = Zero /\ Phi_prime = Zero)

\* With both derivative modes on: RELU gives Phi_dprime = 0 on both sides of
\* zero, and value 0 and first derivative 0 for a pre-activation <= 0; ELU
\* gives Phi_dprime = 0 for a pre-activation > 0 and Phi_dprime = exp(x), its
\* first derivative, not 0 and equal to 1 at 0, for a pre-activation <= 0.
C19_ReluZeroEluExponentialBelowZero ==
    Activated =>
        /\ last_call.tag = "RELU" =>
              /\ Phi_dprime = Zero
              /\ IF QPos(last_call.input)
                 THEN Phi = last_call.input /\ Phi_prime = One
                 ELSE Phi = Zero /\ Phi_prime = Zero
        /\ last_call.tag = "ELU" =>
              IF QPos(last_call.input)
              THEN Phi = last_call.input /\ Phi_prime = One /\ Phi_dprime = Zero
              ELSE /\ Phi_dprime = Phi_prime
                   /\ Phi_dprime = QAdd(Phi, One)
                   /\ QPos(Phi_dprime)
                   /\ QLessEq(Phi_dprime, One)
                   /\ last_call.input = Zero => Phi_dprime = One

\* ELU was evaluated below zero with both modes on.
C19_Witness ==
    /\ Activated
    /\ last_call.tag = "ELU"
    /\ QLess(last_call.input, Zero)
    /\ Phi_dprime # Zero

(***************************************************************************)
(* The destructor: SpecLife.                                               *)
(***************************************************************************)
Alive == last_call.op # "~CNeuralNetwork"

\* delete p: nothing for nullptr.
Deleted(p) == IF p = NullPtr THEN << >> ELSE <<p>>

\* ~CNeuralNetwork(): delete inputLayer, delete outputLayer, then
\* delete total_layers[i] for i = 1 while i < total_layers.size() - 1, then
\* delete[] ANN_outputs.  size() is unsigned: on an empty total_layers the
\* bound is the largest std::size_t and the loop indexes the empty vector.
Destructor ==
    /\ Running
    /\ Alive
    /\ LET first == Deleted(inputLayer) \o Deleted(outputLayer)
           looped == [i \in 1..(Len(total_layers) - 2) |-> total_layers[i + 1]]
       IN  IF total_layers = << >>
           THEN /\ fault' = "out_of_range"
                /\ last_call' = [op |-> "~CNeuralNetwork", freed |-> first,
                                 freed_array |-> FALSE]
           ELSE /\ fault' = fault
                /\ last_call' = [op |-> "~CNeuralNetwork", freed |-> first \o looped,
                                 freed_array |-> ANN_outputs.allocated]
    /\ UNCHANGED <<nameVars, layerVars, weightVars, normVars, outVars, phiVars,
                   flagVars, actVars, match_call, reported, n_calls, n_config>>

NextLife ==
    \/ Alive /\ \E n \in 1..MaxNeurons : DefineInputLayer(n)
    \/ Alive /\ \E n \in 1..MaxNeurons : DefineOutputLayer(n)
    \/ Alive /\ \E n \in 1..MaxNeurons : PushHiddenLayer(n)
    \/ Alive /\ SizeWeights
    \/ Destructor

SpecLife == InitBuild /\ [][NextLife]_vars

Destroyed == last_call.op = "~CNeuralNetwork"

\* How many times layer id was deleted.
TimesFreed(id) == Cardinality({i \in DOMAIN last_call.freed : last_call.freed[i] = id})

\* C23: after any sequence of construction calls, sized or not, with layers
\* declared once or more than once, the destructor deletes every layer that
\* was allocated exactly once, deletes nothing else, and does not index
\* outside total_layers.
C23_DestructorFreesEveryLayerOnce ==
    Destroyed =>
        /\ fault = "none"
        /\ \A id \in 1..Len(heap) : TimesFreed(id) = 1
        /\ Range(last_call.freed) \subseteq 1..Len(heap)

\* What the destructor does do: no layer is deleted twice and nothing but an
\* allocated layer is deleted; when SizeWeights has run and no layer was
\* declared apart from those it sized, every layer is deleted once and the
\* output array is deleted.
C23_NoDoubleFreeAndCompleteWhenSizedOnce ==
    Destroyed =>
        /\ \A id \in 1..Len(heap) : TimesFreed(id) <= 1
        /\ Range(last_call.freed) \subseteq 1..Len(heap)
        /\ (fault = "none") = (total_layers # << >>)
        /\ (total_layers = TotalLayersSized /\ total_layers # << >>
               /\ Len(heap) = n_hidden_layers + 2) =>
              /\ \A id \in 1..Len(heap) : TimesFreed(id) = 1
              /\ last_call.freed_array

(***************************************************************************)
(* The derivative loops in floating point: SpecSym.                        *)
(* mlpdouble holds a significand of mantissa bits; every operation rounds  *)
(* its exact result to the nearest such value, ties to even.  mantissa = 0 *)
(* stands for exact arithmetic.  Exponents are unbounded.                  *)
(***************************************************************************)
MaxMantissa == 3

Pow2(e) == 2 ^ e

\* n / d scaled by a power of two into [2^(mantissa-1), 2^mantissa).
RECURSIVE Normalized(_, _, _, _)
Normalized(n, d, e, mantissa) ==
    IF n >= Pow2(mantissa) * d
    THEN Normalized(n, 2 * d, e + 1, mantissa)
    ELSE IF n < Pow2(mantissa - 1) * d
         THEN Normalized(2 * n, d, e - 1, mantissa)
         ELSE <<n, d, e>>

\* n / d to the nearest integer, ties to even.
RoundHalfEven(n, d) ==
    LET m == n \div d
        r == n % d
    IN  IF 2 * r > d THEN m + 1
        ELSE IF 2 * r = d THEN m + (m % 2)
        ELSE m

Fl(mantissa, q) ==
    IF mantissa = 0 \/ q[1] = 0 \/ q[2] = 0
    THEN q
    ELSE LET sign == IF q[1] < 0 THEN -1 ELSE 1
         IN  CHOOSE r \in
                 {IF t[3] >= 0
                  THEN Q(sign * RoundHalfEven(t[1], t[2]) * Pow2(t[3]), 1)
                  ELSE Q(sign * RoundHalfEven(t[1], t[2]), Pow2(-t[3])) :
                     t \in {Normalized(Abs(q[1]), q[2], 0, mantissa)}} : TRUE

FlMul(mantissa, a, b) == Fl(mantissa, QMul(a, b))

FlAdd(mantissa, a, b) == Fl(mantissa, QAdd(a, b))

\* x, then x += s[1], x += s[2], ..., each sum rounded.
RECURSIVE FlSumFrom(_, _, _, _)
FlSumFrom(mantissa, x, s, j) ==
    IF j > Len(s) THEN x ELSE FlSumFrom(mantissa, FlAdd(mantissa, x, s[j]), s, j + 1)

ComputePsiFl(mantissa, h, iLayer, iNeuron, jInput) ==
    LET prev == LayerAt(h, iLayer - 1)
    IN  FlSumFrom(mantissa, Zero,
                  [jNeuron \in 1..prev.n |->
                      FlMul(mantissa, weights_mat[iLayer][iNeuron + 1][jNeuron],
                            prev.dYdX[jNeuron][jInput + 1])], 1)

ComputeChiFl(mantissa, h, iLayer, iNeuron, jInput, kInput) ==
    LET prev == LayerAt(h, iLayer - 1)
    IN  FlSumFrom(mantissa, Zero,
                  [jNeuron \in 1..prev.n |->
                      FlMul(mantissa, weights_mat[iLayer][iNeuron + 1][jNeuron],
                            prev.d2YdX2[jNeuron][jInput + 1][kInput + 1])], 1)

\* A variant that takes psi_j for both factors.
SecondDerivativeSquaresPsi(mantissa, phi_dprime, psi_j, psi_k, phi_prime, chi) ==
    FlAdd(mantissa,
          FlMul(mantissa, FlMul(mantissa, phi_dprime, psi_j), psi_j),
          FlMul(mantissa, phi_prime, chi))

\* Phi_dprime * psi_j * psi_k + Phi_prime * chi, multiplied left to right.
SecondDerivative(mantissa, phi_dprime, psi_j, psi_k, phi_prime, chi) ==
    FlAdd(mantissa,
          FlMul(mantissa, FlMul(mantissa, phi_dprime, psi_j), psi_k),
          FlMul(mantissa, phi_prime, chi))

\* Lines 731-750 for neuron iNeuron of layer iLayer, with the Phi_prime and
\* Phi_dprime the activation function left.
DerivativeLoops(mantissa, h, iLayer, iNeuron, phi_prime, phi_dprime) ==
    LET nIn == NNeurons(inputLayer)
        id == total_layers[iLayer + 1]
        psi == [jInput \in 1..nIn |->
                   ComputePsiFl(mantissa, h, iLayer, iNeuron, jInput - 1)]
    IN  [h EXCEPT
            ![id].dYdX[iNeuron + 1] =
                [jInput \in 1..nIn |-> FlMul(mantissa, psi[jInput], phi_prime)],
            ![id].d2YdX2[iNeuron + 1] =
                [jInput \in 1..nIn |-> [kInput \in 1..nIn |->
                    SecondDerivative(mantissa, phi_dprime, psi[jInput], psi[kInput],
                                     phi_prime,
                                     ComputeChiFl(mantissa, h, iLayer, iNeuron,
                                                  jInput - 1, kInput - 1))]]]

Mantissas == {0, MaxMantissa}

\* Values with a significand of two bits.
SymWeights == {Q(3, 4), Q(5, 4)}

\* What an activation function can leave in Phi_prime and Phi_dprime.
SymSlopes == {Zero, Q(3, 4), Q(3, 2)}

InDerivatives == last_call.op = "DerivativesRunning"

\* ComputeInputLayer for the neurons of the input layer from iNeuron on.
RECURSIVE InputLayerFrom(_, _, _)
InputLayerFrom(e, inputs, iNeuron) ==
    IF iNeuron >= NNeurons(inputLayer)
    THEN e
    ELSE CHOOSE after \in
             {InputLayerFrom(written, inputs, iNeuron + 1) :
                 written \in {ComputeInputLayer(e, inputs, Zero, iNeuron)}} : TRUE

\* Predict is entered with both modes on: the input layer is seeded.  One
\* call of an instance is followed.
DerivativesEnter(mantissa) ==
    /\ Running
    /\ ~InDerivatives
    /\ compute_gradient
    /\ compute_second_gradient
    /\ n_calls = 0
    /\ \E seeded \in {InputLayerFrom([heap |-> heap,
                                      phi |-> [Phi |-> Phi, Phi_prime |-> Phi_prime,
                                               Phi_dprime |-> Phi_dprime]],
                                     [i \in 1..NNeurons(inputLayer) |-> Zero],
                                     0).heap} :
          heap' = seeded
    /\ last_call' = [op |-> "DerivativesRunning", mantissa |-> mantissa,
                     iLayer |-> 1, flat |-> TRUE]
    /\ UNCHANGED <<nameVars, layerVars, weights_mat, normVars, outVars, phiVars,
                   flagVars, actVars, match_call, fault, reported, n_calls, n_config>>

\* The derivative loops of the one neuron of the next layer.
DerivativesNeuron(phi_prime, phi_dprime) ==
    /\ Running
    /\ InDerivatives
    /\ last_call.iLayer < n_hidden_layers + 2
    /\ \E h \in {DerivativeLoops(last_call.mantissa, heap, last_call.iLayer, 0,
                                 phi_prime, phi_dprime)} :
          heap' = h
    /\ Phi_prime' = phi_prime
    /\ Phi_dprime' = phi_dprime
    /\ last_call' = [last_call EXCEPT !.iLayer = @ + 1,
                                      !.flat = @ /\ phi_dprime = Zero]
    /\ UNCHANGED <<nameVars, layerVars, weights_mat, normVars, outVars, Phi,
                   flagVars, actVars, match_call, fault, reported, n_calls, n_config>>

\* Lines 682-702: the output layer's derivatives are scaled and copied.
DerivativesReturn ==
    /\ Running
    /\ InDerivatives
    /\ last_call.iLayer = n_hidden_layers + 2
    /\ n_calls' = n_calls + 1
    /\ LET m == last_call.mantissa
           nIn == NNeurons(inputLayer)
           nOut == NNeurons(outputLayer)
           out == heap[outputLayer]
       IN  \E scaled \in
               {[out EXCEPT
                    !.dYdX = [i \in 1..nOut |-> [j \in 1..nIn |->
                                 FlMul(m, GetRegularizationScale(i - 1, FALSE),
                                       out.dYdX[i][j])]],
                    !.d2YdX2 = [i \in 1..nOut |-> [j \in 1..nIn |-> [k \in 1..nIn |->
                                   FlMul(m, GetRegularizationScale(i - 1, FALSE),
                                         out.d2YdX2[i][j][k])]]]]} :
               /\ heap' = [heap EXCEPT ![outputLayer] = scaled]
               /\ dOutputs_dInputs' = scaled.dYdX
               /\ d2Outputs_dInputs2' = scaled.d2YdX2
    /\ last_call' = [op |-> "Derivatives", mantissa |-> last_call.mantissa,
                     flat |-> last_call.flat]
    /\ UNCHANGED <<nameVars, layerVars, weights_mat, normVars, ANN_outputs, phiVars,
                   flagVars, actVars, match_call, fault, reported, n_config>>

InitSym ==
    /\ \E w1, w2, w3 \in SymWeights :
          Built(2, <<1>>, 1, <<<<<<w1, w2>>>>, <<<<w3>>>>>>,
                <<<<Zero, Zero>>, <<Zero>>, <<Zero>>>>, <<"NONE", "ELU", "ELU">>)
    /\ input_norm = <<<<Zero, One>>, <<Zero, One>>>>
    /\ output_norm = <<<<Zero, Q(3, 2)>>>>
    /\ input_reg_method = MINMAX
    /\ output_reg_method = MINMAX
    /\ Phi = Zero
    /\ Phi_prime = Zero
    /\ Phi_dprime = Zero
    /\ Unobserved

NextSym ==
    \/ ~InDerivatives /\ ComputeFirstOrderGradient(TRUE)
    \/ ~InDerivatives /\ ComputeSecondOrderGradient(TRUE)
    \/ \E mantissa \in Mantissas : DerivativesEnter(mantissa)
    \/ \E phi_prime, phi_dprime \in SymSlopes : DerivativesNeuron(phi_prime, phi_dprime)
    \/ DerivativesReturn

SpecSym == InitSym /\ [][NextSym]_vars

\* Whether a two-index buffer equals its transpose.
Symmetric(t) == \A j, k \in DOMAIN t : t[j][k] = t[k][j]

\* The layers whose derivative buffers the running call has written.
LayersWritten ==
    IF InDerivatives THEN 0..(last_call.iLayer - 1)
    ELSE IF last_call.op = "Derivatives" THEN 0..(n_hidden_layers + 1)
    ELSE {}

SymmetricSoFar ==
    /\ \A l \in LayersWritten :
          \A n \in 1..LayerAt(heap, l).n : Symmetric(LayerAt(heap, l).d2YdX2[n])
    /\ last_call.op = "Derivatives" =>
          \A i \in DOMAIN d2Outputs_dInputs2 : Symmetric(d2Outputs_dInputs2[i])

Callers == {"A", "B"}

IdleFrame ==
    [status |-> "idle", inputs |-> << >>, iLayer |-> 0, iNeuron |-> 0,
     overlapped |-> FALSE, read |-> << >>]

InFlight(frame) == frame.status \in {"running", "returned"}

\* A variant in which every caller's loop reads the vector of caller A.
CallerInputsShared(frames, t) == frames["A"].inputs

\* The vector the caller passed by reference to its Predict.
CallerInputs(frames, t) == frames[t].inputs

\* What a caller reads after its call: GetANNOutput for every output and,
\* with first-derivative mode on, GetdOutputdInput for every pair.
ReadBuffers(outputs, gradient) ==
    [outputs |-> outputs,
     gradient |-> IF compute_gradient THEN gradient ELSE << >>]

\* What Predict(inputs) followed by the reads yields when it runs alone.
Alone(inputs) ==
    CHOOSE r \in
        {ReadBuffers(d.ANN_outputs.data, d.dOutputs_dInputs) :
            d \in {DeNormalizeOutputs(e.heap) :
                      e \in {PredictFrom([heap |-> heap,
                                          phi |-> [Phi |-> Phi, Phi_prime |-> Phi_prime,
                                                   Phi_dprime |-> Phi_dprime]],
                                         inputs, Zero, 0, 0)}}} : TRUE

CallerEnter(t, inputs) ==
    /\ Running
    /\ ~InFlight(last_call.frames[t])
    /\ n_calls < MaxCalls
    /\ n_calls' = n_calls + 1
    /\ LET others == {u \in Callers \ {t} : InFlight(last_call.frames[u])}
       IN  last_call' =
               [last_call EXCEPT
                   !.frames = [u \in Callers |->
                       IF u = t
                       THEN [status |-> "running", inputs |-> inputs, iLayer |-> 0,
                             iNeuron |-> 0, overlapped |-> others # {},
                             read |-> << >>]
                       ELSE IF u \in others
                            THEN [last_call.frames[u] EXCEPT !.overlapped = TRUE]
                            ELSE last_call.frames[u]]]
    /\ UNCHANGED <<nameVars, layerVars, weightVars, normVars, outVars, phiVars,
                   flagVars, actVars, match_call, fault, reported, n_config>>

CallerNeuron(t) ==
    /\ Running
    /\ last_call.frames[t].status = "running"
    /\ last_call.frames[t].iLayer < n_hidden_layers + 2
    /\ LET frame == last_call.frames[t]
           next == NextPosition(frame.iLayer, frame.iNeuron)
       IN  \E e \in {NeuronStep([heap |-> heap,
                                 phi |-> [Phi |-> Phi, Phi_prime |-> Phi_prime,
                                          Phi_dprime |-> Phi_dprime]],
                                CallerInputs(last_call.frames, t), Zero,
                                frame.iLayer, frame.iNeuron)} :
               /\ heap' = e.heap
               /\ Phi' = e.phi.Phi
               /\ Phi_prime' = e.phi.Phi_prime
               /\ Phi_dprime' = e.phi.Phi_dprime
               /\ last_call' = [last_call EXCEPT !.frames[t].iLayer = next[1],
                                                 !.frames[t].iNeuron = next[2]]
    /\ UNCHANGED <<nameVars, layerVars, weights_mat, normVars, outVars, flagVars,
                   actVars, match_call, fault, reported, n_calls, n_config>>

CallerReturn(t) ==
    /\ Running
    /\ last_call.frames[t].status = "running"
    /\ last_call.frames[t].iLayer >= n_hidden_layers + 2
    /\ \E d \in {DeNormalizeOutputs(heap)} :
          /\ heap' = d.heap
          /\ ANN_outputs' = d.ANN_outputs
          /\ dOutputs_dInputs' = d.dOutputs_dInputs
          /\ d2Outputs_dInputs2' = d.d2Outputs_dInputs2
    /\ last_call' = [last_call EXCEPT !.frames[t].status = "returned"]
    /\ UNCHANGED <<nameVars, layerVars, weights_mat, normVars, phiVars, flagVars,
                   actVars, match_call, fault, reported, n_calls, n_config>>

CallerRead(t) ==
    /\ Running
    /\ last_call.frames[t].status = "returned"
    /\ last_call' = [last_call EXCEPT
                        !.frames[t].status = "read",
                        !.frames[t].read = ReadBuffers(ANN_outputs.data, dOutputs_dInputs)]
    /\ UNCHANGED <<nameVars, layerVars, weightVars, normVars, outVars, phiVars,
                   flagVars, actVars, match_call, fault, reported, n_calls, n_config>>

RaceTags == {"LINEAR", "RELU"}

InitRace ==
    /\ \E tag \in RaceTags :
          /\ Built(1, <<2>>, 1, <<<<<<One>>, <<QInt(-1)>>>>, <<<<QInt(2), One>>>>>>,
                   <<<<Zero>>, <<Zero, One>>, <<QInt(-1)>>>>, <<"NONE", tag, "LINEAR">>)
    /\ input_norm = <<<<Zero, One>>>>
    /\ output_norm = <<<<Zero, One>>>>
    /\ input_reg_method = MINMAX
    /\ output_reg_method = MINMAX
    /\ \E u \in UninitializedReads :
          /\ Phi = u
          /\ Phi_prime = u
          /\ Phi_dprime = u
    /\ match_call = NoCall
    /\ last_call = [op |-> "Callers", frames |-> [t \in Callers |-> IdleFrame]]
    /\ fault = "none"
    /\ reported = "none"
    /\ n_calls = 0
    /\ n_config = 0

RaceInputs == {<<Zero>>, <<One>>, <<QInt(2)>>}

NextRace ==
    \/ \E t \in Callers, x \in RaceInputs : CallerEnter(t, x)
    \/ \E t \in Callers : CallerNeuron(t)
    \/ \E t \in Callers : CallerReturn(t)
    \/ \E t \in Callers : CallerRead(t)

SpecRace == InitRace /\ [][NextRace]_vars

\* C21: a caller whose call, up to its reads, did not overlap a call of the
\* other caller reads the outputs (and derivatives) its own inputs yield
\* when evaluated alone; with interleaved calls there is a run in which a
\* caller reads something else.
C21_SerializedCallersReadTheirOwnResult ==
    \A t \in Callers :
        LET frame == last_call.frames[t]
        IN  (frame.status = "read" /\ ~frame.overlapped) =>
                frame.read = Alone(frame.inputs)

\* Two calls with different inputs were interleaved, and a caller has read
\* an output that is not the one of its own inputs.
C21_Witness ==
    \E t \in Callers :
        LET frame == last_call.frames[t]
        IN  /\ frame.status = "read"
            /\ frame.overlapped
            /\ \E u \in Callers \ {t} :
                  /\ last_call.frames[u].status # "idle"
                  /\ last_call.frames[u].inputs # frame.inputs
            /\ frame.read.outputs # Alone(frame.inputs).outputs

====
